---- MODULE Spec2Model ----
(***************************************************************************)
(* Verification model of the NFC tag security layer of NFCsecurereader:    *)
(*   - CoreNFCManager (lib/nfc/core-manager.ts): the busy flag and the     *)
(*     scoped hardware acquisition of readNFCTag / writeNFCTag,            *)
(*   - NFCManager (lib/nfc/index.ts), SecurityManager, LoggingManager and  *)
(*     SimpleSecureNFCManager: the access decision and the logs,           *)
(*   - NFCSecurityManager (lib/firebase.ts): verifySignedTag, recordAccess *)
(*     and analyzeBehavior.                                                *)
(* The specifications of the module: Spec (the core manager under          *)
(* interleaved callers), SpecMgr (the top-level read paths, one call at a  *)
(* time), SpecPattern (the access-pattern store and the analyser under     *)
(* interleaved callers), SpecAlone (the same used by one caller), SpecSign *)
(* (one payload signed, changed and verified), SpecLog (the two logs of    *)
(* LoggingManager filled call by call), SpecTop (NFCManager.readNFCTag     *)
(* under interleaved callers, with its logging), SpecDetect (a             *)
(* SecurityManager called on its own) and SpecCodec (text records written  *)
(* by writeNFCTag and records parsed by parseTagData).                     *)
(***************************************************************************)
EXTENDS Integers, Sequences, FiniteSets, TLC

VARIABLES
    \* ---- CoreNFCManager under interleaved callers (Spec) ----
    isInitialized,   \* CoreNFCManager.isInitialized
    isReading,       \* CoreNFCManager.isReading, the busy flag
    pc,              \* per caller: the await its call is suspended at, or "idle"
    op,              \* per caller: the call in progress ("read", "write", ...)
    pending,         \* per caller: what the call settles with once its finally block ends
    outcome,         \* per caller: how its last call settled
    cancelInvoked,   \* per caller: its last call invoked cancelTechnologyRequest
    hwHolder,        \* the caller whose technology request the NFC driver currently holds
    \* ---- the clock, Date.now() in milliseconds ----
    now,
    \* ---- NFCManager, SecurityManager, LoggingManager, SimpleSecureNFCManager (SpecMgr) ----
    tagMem,          \* the text records stored on the tag in the field
    mgrDetect,       \* nfcManager.security.threatDetectionEnabled
    secDetect,       \* simpleSecureNFCManager.securityManager.threatDetectionEnabled
    mgrAttempts,     \* nfcManager.security.readAttempts
    secAttempts,     \* simpleSecureNFCManager.securityManager.readAttempts
    accessLogs,      \* SecureStore item 'nfc_access_logs', newest first
    threatReports,   \* SecureStore item 'threat_reports', newest first
    last,            \* what the last top-level call did and returned or threw
    \* ---- NFCSecurityManager (SpecPattern) ----
    patternObjects,  \* the AccessPattern objects created so far, by object identity
    accessPatterns,  \* NFCSecurityManager.accessPatterns: tag id -> its object (0: no entry)
    storedPatterns,  \* SecureStore item 'nfc_access_patterns'
    securityEvents,  \* NFCSecurityManager.securityEvents
    storedEvents,    \* SecureStore item 'nfc_security_events'
    frame,           \* per caller: the locals of its NFCSecurityManager call in flight
    verdict,         \* what the last NFCSecurityManager call to return has returned
    recorded,        \* per tag id: the accesses recordAccess has pushed, in order (history)
    begun,           \* number of NFCSecurityManager calls made so far
    variations,      \* number of departures from the regular traffic so far
    \* ---- signing and verifying one payload (SpecSign) ----
    signing,         \* the call that signed: manager, data, time, what it returned
    presented,       \* the payload handed to the verification (<<>>: none yet)
    verifications,   \* what each verification of the presented payload returned, in order
    \* ---- LoggingManager called on its own (SpecLog) ----
    logCall,         \* the last logNFCAccess / logThreatReport call: its log, entry, store
    written,         \* the entries whose setItemAsync came through, oldest first (history)
    \* ---- NFCManager.readNFCTag under interleaved callers (SpecTop) ----
    top,             \* per caller: where its readNFCTag stands after core.readNFCTag()
    topBegun,        \* number of readNFCTag calls made so far
    topLogged,       \* the access-log entries whose logNFCAccess has returned (history)
    \* ---- a SecurityManager called on its own (SpecDetect) ----
    threatDetectionEnabled,  \* SecurityManager.threatDetectionEnabled
    readAttempts,    \* SecurityManager.readAttempts
    detected,        \* the last performThreatDetection call and what it returned
    reported,        \* the tag ids a CLONING_ATTEMPT has been reported for (history)
    \* ---- the NDEF text records written and parsed by CoreNFCManager (SpecCodec) ----
    codecWrite,      \* the writeNFCTag call: its textData, the bytes it built, how it ended
    tagNdef,         \* the NDEF message held by the tag in the field
    parsed           \* the parseTagData call: the message delivered and its ndefRecords

coreVars == <<isInitialized, isReading, pc, op, pending, outcome, cancelInvoked,
              hwHolder>>

mgrVars == <<tagMem, mgrDetect, secDetect, mgrAttempts, secAttempts, accessLogs,
             threatReports, last>>

patVars == <<patternObjects, accessPatterns, storedPatterns, securityEvents, storedEvents,
             frame, verdict, recorded, begun, variations>>

sigVars == <<signing, presented, verifications>>

logVars == <<logCall, written>>

topVars == <<top, topBegun, topLogged>>

detectVars == <<threatDetectionEnabled, readAttempts, detected, reported>>

codecVars == <<codecWrite, tagNdef, parsed>>

moreVars == <<logVars, topVars, detectVars, codecVars>>

vars == <<coreVars, now, mgrVars, patVars, sigVars, moreVars>>

\* ------------------------------------------------------------------------
\* Bounds
\* ------------------------------------------------------------------------
NumCallers == 2

Callers == 1..NumCallers
NoCaller == 0

\* ------------------------------------------------------------------------
\* CoreNFCManager: readNFCTag / writeNFCTag / initialize / cleanup
\* ------------------------------------------------------------------------

\* A call that passed both guards and has not yet settled its promise.
InFlight(p) == pc[p] \in {"requestTech", "getTag", "haptics", "parse", "writeNdef", "cancel"}

\* A call that holds the busy flag: between `this.isReading = true` and the
\* first statement of its finally block.
BeforeFinally(p) == pc[p] \in {"requestTech", "getTag", "haptics", "parse", "writeNdef"}

CoreInit ==
    /\ isInitialized = FALSE
    /\ isReading = FALSE
    /\ pc = [p \in Callers |-> "idle"]
    /\ op = [p \in Callers |-> "none"]
    /\ pending = [p \in Callers |-> "none"]
    /\ outcome = [p \in Callers |-> "none"]
    /\ cancelInvoked = [p \in Callers |-> FALSE]
    /\ hwHolder = NoCaller

\* A mutant of the guards: they stand inside the try block, so a rejected
\* call runs the finally block.
BeginOperationGuardsInsideTry(p, kind) ==
    /\ pc[p] = "idle"
    /\ IF ~isInitialized \/ isReading
       THEN /\ isReading' = FALSE
            /\ cancelInvoked' = [cancelInvoked EXCEPT ![p] = TRUE]
            /\ pending' = [pending EXCEPT ![p] = IF ~isInitialized THEN "NotInitialized"
                                                 ELSE "InProgress"]
            /\ pc' = [pc EXCEPT ![p] = "cancel"]
            /\ op' = [op EXCEPT ![p] = kind]
            /\ outcome' = [outcome EXCEPT ![p] = "running"]
            /\ UNCHANGED <<hwHolder, isInitialized>>
       ELSE /\ isReading' = TRUE
            /\ op' = [op EXCEPT ![p] = kind]
            /\ pc' = [pc EXCEPT ![p] = "requestTech"]
            /\ pending' = [pending EXCEPT ![p] = "none"]
            /\ outcome' = [outcome EXCEPT ![p] = "running"]
            /\ cancelInvoked' = [cancelInvoked EXCEPT ![p] = FALSE]
            /\ UNCHANGED <<hwHolder, isInitialized>>

\* The two guards at the head of readNFCTag and writeNFCTag, and the entry into
\* the try block: the flag is set and requestTechnology is invoked in the same
\* synchronous run.
BeginOperation(p, kind) ==
    /\ pc[p] = "idle"
    /\ IF ~isInitialized
       THEN /\ outcome' = [outcome EXCEPT ![p] = "NotInitialized"]
            /\ cancelInvoked' = [cancelInvoked EXCEPT ![p] = FALSE]
            /\ UNCHANGED <<isReading, pc, op, pending, hwHolder, isInitialized>>
       ELSE IF isReading
       THEN /\ outcome' = [outcome EXCEPT ![p] = "InProgress"]
            /\ cancelInvoked' = [cancelInvoked EXCEPT ![p] = FALSE]
            /\ UNCHANGED <<isReading, pc, op, pending, hwHolder, isInitialized>>
       ELSE /\ isReading' = TRUE
            /\ op' = [op EXCEPT ![p] = kind]
            /\ pc' = [pc EXCEPT ![p] = "requestTech"]
            /\ pending' = [pending EXCEPT ![p] = "none"]
            /\ outcome' = [outcome EXCEPT ![p] = "running"]
            /\ cancelInvoked' = [cancelInvoked EXCEPT ![p] = FALSE]
            /\ UNCHANGED <<hwHolder, isInitialized>>

\* A mutant of the finally block: the hardware is released on the success path only.
EnterFinallySkipsCancelOnError(p, result) ==
    IF result = "ok"
    THEN /\ isReading' = FALSE
         /\ cancelInvoked' = [cancelInvoked EXCEPT ![p] = TRUE]
         /\ pending' = [pending EXCEPT ![p] = result]
         /\ pc' = [pc EXCEPT ![p] = "cancel"]
         /\ UNCHANGED outcome
    ELSE /\ isReading' = FALSE
         /\ pc' = [pc EXCEPT ![p] = "idle"]
         /\ outcome' = [outcome EXCEPT ![p] = result]
         /\ UNCHANGED <<cancelInvoked, pending>>

\* A mutant of the finally block: the busy flag is cleared on the success path only.
EnterFinallyKeepsBusyOnError(p, result) ==
    /\ isReading' = (IF result = "ok" THEN FALSE ELSE isReading)
    /\ cancelInvoked' = [cancelInvoked EXCEPT ![p] = TRUE]
    /\ pending' = [pending EXCEPT ![p] = result]
    /\ pc' = [pc EXCEPT ![p] = "cancel"]
    /\ UNCHANGED outcome

\* The finally block up to its await: the flag is cleared, then
\* cancelTechnologyRequest is invoked and awaited; the call settles with
\* `result` only when that await ends.
EnterFinally(p, result) ==
    /\ isReading' = FALSE
    /\ cancelInvoked' = [cancelInvoked EXCEPT ![p] = TRUE]
    /\ pending' = [pending EXCEPT ![p] = result]
    /\ pc' = [pc EXCEPT ![p] = "cancel"]
    /\ UNCHANGED outcome

ReadNFCTag(p) ==
    /\ BeginOperation(p, "read")

WriteNFCTag(p) ==
    /\ BeginOperation(p, "write")

\* await NfcManager.requestTechnology(...): granted, or rejected (unsupported
\* tag technology, user cancel, timeout).
RequestTechnologySettles(p) ==
    /\ pc[p] = "requestTech"
    /\ \E granted \in BOOLEAN :
         IF granted
         THEN /\ hwHolder' = p
              /\ pc' = [pc EXCEPT ![p] = IF op[p] = "read" THEN "getTag" ELSE "writeNdef"]
              /\ UNCHANGED <<isReading, pending, outcome, cancelInvoked>>
         ELSE /\ EnterFinally(p, "hwError")
              /\ UNCHANGED hwHolder
    /\ UNCHANGED <<isInitialized, op>>

\* await NfcManager.getTag(): a tag, no tag, or a rejection.
GetTagSettles(p) ==
    /\ pc[p] = "getTag"
    /\ \E res \in {"tag", "null", "reject"} :
         IF res = "tag"
         THEN /\ pc' = [pc EXCEPT ![p] = "haptics"]
              /\ UNCHANGED <<isReading, pending, outcome, cancelInvoked>>
         ELSE EnterFinally(p, IF res = "null" THEN "noTag" ELSE "hwError")
    /\ UNCHANGED <<isInitialized, op, hwHolder>>

\* await Haptics.notificationAsync(...), of a read (then parseTagData starts)
\* or of a write (then the try block ends).
HapticsSettles(p) ==
    /\ pc[p] = "haptics"
    /\ \E ok \in BOOLEAN :
         IF ~ok
         THEN EnterFinally(p, "hwError")
         ELSE IF op[p] = "read"
         THEN /\ pc' = [pc EXCEPT ![p] = "parse"]
              /\ UNCHANGED <<isReading, pending, outcome, cancelInvoked>>
         ELSE EnterFinally(p, "ok")
    /\ UNCHANGED <<isInitialized, op, hwHolder>>

\* await this.parseTagData(tag): getNdefMessage failures are caught inside, so
\* the read returns the tag data.
ParseTagDataSettles(p) ==
    /\ pc[p] = "parse"
    /\ EnterFinally(p, "ok")
    /\ UNCHANGED <<isInitialized, op, hwHolder>>

\* await NfcManager.ndefHandler.writeNdefMessage(bytes).
WriteNdefSettles(p) ==
    /\ pc[p] = "writeNdef"
    /\ \E ok \in BOOLEAN :
         IF ok
         THEN /\ pc' = [pc EXCEPT ![p] = "haptics"]
              /\ UNCHANGED <<isReading, pending, outcome, cancelInvoked>>
         ELSE EnterFinally(p, "writeError")
    /\ UNCHANGED <<isInitialized, op, hwHolder>>

\* await NfcManager.cancelTechnologyRequest() inside the finally block: a
\* rejection is caught and logged; either way the call settles with the
\* pending result.  A successful cancel drops whatever request the driver holds.
CancelSettles(p) ==
    /\ pc[p] = "cancel"
    /\ \E ok \in BOOLEAN :
         hwHolder' = IF ok THEN NoCaller ELSE hwHolder
    /\ pc' = [pc EXCEPT ![p] = "idle"]
    /\ op' = [op EXCEPT ![p] = "none"]
    /\ pending' = [pending EXCEPT ![p] = "none"]
    /\ outcome' = [outcome EXCEPT ![p] = pending[p]]
    /\ UNCHANGED <<isInitialized, isReading, cancelInvoked>>

\* initialize(): isSupported and start are awaited, then the flag is set; every
\* failure returns false and leaves the flag alone.
Initialize(p) ==
    /\ pc[p] = "idle"
    /\ pc' = [pc EXCEPT ![p] = "init"]
    /\ outcome' = [outcome EXCEPT ![p] = "running"]
    /\ cancelInvoked' = [cancelInvoked EXCEPT ![p] = FALSE]
    /\ UNCHANGED <<isInitialized, isReading, op, pending, hwHolder>>

InitializeSettles(p) ==
    /\ pc[p] = "init"
    /\ \E ok \in BOOLEAN :
         /\ isInitialized' = (IF ok THEN TRUE ELSE isInitialized)
         /\ outcome' = [outcome EXCEPT ![p] = IF ok THEN "initOk" ELSE "initFailed"]
    /\ pc' = [pc EXCEPT ![p] = "idle"]
    /\ UNCHANGED <<isReading, op, pending, cancelInvoked, hwHolder>>

\* cleanup(): with the flag set it first awaits cancelTechnologyRequest.
Cleanup(p) ==
    /\ pc[p] = "idle"
    /\ cancelInvoked' = [cancelInvoked EXCEPT ![p] = FALSE]
    /\ IF isReading
       THEN /\ pc' = [pc EXCEPT ![p] = "cleanupCancel"]
            /\ outcome' = [outcome EXCEPT ![p] = "running"]
            /\ UNCHANGED isInitialized
       ELSE /\ isInitialized' = FALSE
            /\ outcome' = [outcome EXCEPT ![p] = "cleaned"]
            /\ UNCHANGED pc
    /\ UNCHANGED <<isReading, op, pending, hwHolder>>

\* The cancel awaited by cleanup(): on a rejection the catch block logs and
\* the method returns without touching isInitialized.
CleanupCancelSettles(p) ==
    /\ pc[p] = "cleanupCancel"
    /\ \E ok \in BOOLEAN :
         /\ isInitialized' = (IF ok THEN FALSE ELSE isInitialized)
         /\ hwHolder' = IF ok THEN NoCaller ELSE hwHolder
    /\ pc' = [pc EXCEPT ![p] = "idle"]
    /\ outcome' = [outcome EXCEPT ![p] = "cleaned"]
    /\ UNCHANGED <<isReading, op, pending, cancelInvoked>>

CoreStep ==
    \E p \in Callers :
        \/ ReadNFCTag(p)
        \/ WriteNFCTag(p)
        \/ RequestTechnologySettles(p)
        \/ GetTagSettles(p)
        \/ HapticsSettles(p)
        \/ ParseTagDataSettles(p)
        \/ WriteNdefSettles(p)
        \/ CancelSettles(p)
        \/ Initialize(p)
        \/ InitializeSettles(p)
        \/ Cleanup(p)
        \/ CleanupCancelSettles(p)

CoreNext == CoreStep /\ UNCHANGED <<now, mgrVars, patVars, sigVars, moreVars>>

\* ------------------------------------------------------------------------
\* Strings: a string is a sequence of one-character strings
\* ------------------------------------------------------------------------
DigitChars == <<"0", "1", "2", "3", "4", "5", "6", "7", "8", "9">>

IsDigit(c) == \E i \in 1..Len(DigitChars) : DigitChars[i] = c

DigitValue(c) == (CHOOSE i \in 1..Len(DigitChars) : DigitChars[i] = c) - 1

\* Number.prototype.toString() of a non-negative integer.
RECURSIVE IntToString(_)
IntToString(n) ==
    IF n < Len(DigitChars)
    THEN <<DigitChars[n + 1]>>
    ELSE IntToString(n \div Len(DigitChars)) \o <<DigitChars[(n % Len(DigitChars)) + 1]>>

\* parseInt of a non-empty run of decimal digits.
RECURSIVE ParseInt(_)
ParseInt(ds) ==
    IF Len(ds) = 0 THEN 0
    ELSE ParseInt(SubSeq(ds, 1, Len(ds) - 1)) * Len(DigitChars) + DigitValue(ds[Len(ds)])

\* String.prototype.startsWith
StartsWith(s, pre) == Len(s) >= Len(pre) /\ SubSeq(s, 1, Len(pre)) = pre

\* String.prototype.includes
Includes(s, sub) ==
    \E i \in 1..(Len(s) - Len(sub) + 1) : SubSeq(s, i, i + Len(sub) - 1) = sub

\* String.prototype.split on a one-character separator.
RECURSIVE Split(_, _)
Split(s, c) ==
    IF \A i \in 1..Len(s) : s[i] # c
    THEN <<s>>
    ELSE LET i == CHOOSE k \in 1..Len(s) : s[k] = c /\ \A j \in 1..(k - 1) : s[j] # c
         IN  <<SubSeq(s, 1, i - 1)>> \o Split(SubSeq(s, i + 1, Len(s)), c)

\* Array.prototype.join on a one-character separator.
RECURSIVE Join(_, _)
Join(parts, c) ==
    IF Len(parts) = 0 THEN <<>>
    ELSE IF Len(parts) = 1 THEN parts[1]
    ELSE parts[1] \o <<c>> \o Join(Tail(parts), c)

\* Array.prototype.findIndex(part => part.startsWith(pre)), 1-based; 0 stands for -1.
FindIndexStartsWith(parts, pre) ==
    IF \E i \in 1..Len(parts) : StartsWith(parts[i], pre)
    THEN CHOOSE i \in 1..Len(parts) :
            /\ StartsWith(parts[i], pre)
            /\ \A j \in 1..(i - 1) : ~StartsWith(parts[j], pre)
    ELSE 0

\* The longest run of digits of s that starts at position i.
RECURSIVE DigitRun(_, _)
DigitRun(s, i) ==
    IF i <= Len(s) /\ IsDigit(s[i]) THEN <<s[i]>> \o DigitRun(s, i + 1) ELSE <<>>

\* s.match(/<marker>(\d+)/): the captured digits of the leftmost match, or the
\* empty string when there is no match.
MatchDigitsAfter(s, marker) ==
    LET hits == {i \in 1..Len(s) :
                    /\ i + Len(marker) <= Len(s)
                    /\ SubSeq(s, i, i + Len(marker) - 1) = marker
                    /\ IsDigit(s[i + Len(marker)])}
    IN  IF hits = {} THEN <<>>
        ELSE LET i == CHOOSE k \in hits : \A j \in hits : k <= j
             IN  DigitRun(s, i + Len(marker))

\* ------------------------------------------------------------------------
\* The hash: Crypto.digestStringAsync(SHA256, s), idealised as collision-free.
\* The digest of s is the hexadecimal spelling of s, two hex digits a character.
\* ------------------------------------------------------------------------
Alphabet == <<"|", ":", ".", "S", "T", "N", "A", "B", "E", "e", "r", "o", "x", "y", "k",
              "0", "1", "2", "3", "4", "5", "6", "7", "8", "9",
              "I", "M", "O", "C", "D", "V", "G", "a", "b", "c", "d", "f",
              "U", "R", "t", "u">>

HexChars == <<"0", "1", "2", "3", "4", "5", "6", "7", "8", "9", "a", "b", "c", "d", "e", "f">>

CharCode(c) == CHOOSE i \in 1..Len(Alphabet) : Alphabet[i] = c

RECURSIVE Sha256Hex(_)
Sha256Hex(s) ==
    IF Len(s) = 0 THEN <<>>
    ELSE <<HexChars[(CharCode(s[1]) \div Len(HexChars)) + 1],
           HexChars[(CharCode(s[1]) % Len(HexChars)) + 1]>> \o Sha256Hex(Tail(s))

\* ------------------------------------------------------------------------
\* SimpleSecureNFCManager: the signed payload
\* ------------------------------------------------------------------------
\* privateKey ('demo_secure_key_12345'), shortened to one character.
PrivateKey == <<"k">>

\* 5 * 60 * 1000: the lifetime of a signature in milliseconds.
SignatureLifetime == 300000

\* Data longer than this is cut and '...' appended before signing.
MaxSecureData == 50

\* The ceiling on the signed string.
MaxSecureLength == 200

\* The digest is 64 hexadecimal characters long, of which
\* signature.substring(0, 16) keeps 16.  The model's digest has another
\* length, so the length of a string that holds a digest is counted with
\* these two.
DigestLength == 64

ShortSignatureLength == 16

\* signature.substring(0, 16) of the digest of payload + privateKey.
ShortSignature(payload) == Sha256Hex(payload \o PrivateKey)

\* writeSecureTag up to the length check: the string handed to writeNFCTag, or
\* <<>> when the method throws 'Payload too large for NFC tag'.
SecureData(data, timestamp, nonce) ==
    LET truncatedData == IF Len(data) > MaxSecureData
                         THEN SubSeq(data, 1, MaxSecureData) \o <<".", ".", ".">>
                         ELSE data
        payload == truncatedData \o <<"|", "T", ":">> \o IntToString(timestamp)
                                 \o <<"|", "N", ":">> \o nonce
        secureData == payload \o <<"|", "S", ":">> \o ShortSignature(payload)
        length == Len(payload) + Len(<<"|", "S", ":">>) + ShortSignatureLength
    IN  IF length > MaxSecureLength THEN <<>> ELSE secureData

\* verifySignature(payload) evaluated at time `at`.
VerifySignature(payload, at) ==
    LET parts == Split(payload, "|")
        signatureIndex == FindIndexStartsWith(parts, <<"S", ":">>)
    IN  IF signatureIndex = 0
        THEN [isValid |-> FALSE, isExpired |-> FALSE]
        ELSE LET shortSignature == SubSeq(parts[signatureIndex], 3, Len(parts[signatureIndex]))
                 payloadWithoutSig == Join(SubSeq(parts, 1, signatureIndex - 1), "|")
                 timeMatch == MatchDigitsAfter(payloadWithoutSig, <<"T", ":">>)
             IN  [isValid |-> shortSignature = ShortSignature(payloadWithoutSig),
                  isExpired |-> IF timeMatch = <<>> THEN FALSE
                                ELSE at - ParseInt(timeMatch) > SignatureLifetime]

\* ------------------------------------------------------------------------
\* SecurityManager (lib/nfc/security-manager.ts)
\* ------------------------------------------------------------------------
TagIds == {"04A1"}

NoReport == [threatType |-> "NONE", severity |-> "NONE", blocked |-> FALSE]

\* A read count above this one makes performThreatDetection report cloning.
CloningAttempts == 5

\* tagData.ndefRecords.some(record => !record.payload || includes('error') || includes('Error'))
HasErrorRecords(records) ==
    \E i \in 1..Len(records) :
        \/ Len(records[i]) = 0
        \/ Includes(records[i], <<"e", "r", "r", "o", "r">>)
        \/ Includes(records[i], <<"E", "r", "r", "o", "r">>)

\* A mutant of performThreatDetection: the cloning report comes one read
\* earlier (currentAttempts >= 5).
PerformThreatDetectionOneEarlier(enabled, attempts, tagId, records) ==
    IF ~enabled
    THEN [report |-> NoReport, attempts |-> attempts]
    ELSE LET currentAttempts == attempts[tagId]
             counted == [attempts EXCEPT ![tagId] = currentAttempts + 1]
         IN  IF currentAttempts >= CloningAttempts
             THEN [report |-> [threatType |-> "CLONING_ATTEMPT", severity |-> "HIGH",
                               blocked |-> TRUE],
                   attempts |-> counted]
             ELSE IF HasErrorRecords(records)
             THEN [report |-> [threatType |-> "MALFORMED_DATA", severity |-> "MEDIUM",
                               blocked |-> FALSE],
                   attempts |-> counted]
             ELSE [report |-> NoReport, attempts |-> counted]

\* performThreatDetection(tagData): the report (NoReport stands for null) and
\* the readAttempts map it leaves.
PerformThreatDetection(enabled, attempts, tagId, records) ==
    IF ~enabled
    THEN [report |-> NoReport, attempts |-> attempts]
    ELSE LET currentAttempts == attempts[tagId]
             counted == [attempts EXCEPT ![tagId] = currentAttempts + 1]
         IN  IF currentAttempts > CloningAttempts
             THEN [report |-> [threatType |-> "CLONING_ATTEMPT", severity |-> "HIGH",
                               blocked |-> TRUE],
                   attempts |-> counted]
             ELSE IF HasErrorRecords(records)
             THEN [report |-> [threatType |-> "MALFORMED_DATA", severity |-> "MEDIUM",
                               blocked |-> FALSE],
                   attempts |-> counted]
             ELSE [report |-> NoReport, attempts |-> counted]

\* ------------------------------------------------------------------------
\* LoggingManager (lib/nfc/core-manager.ts, lib/nfc/logging-manager.ts)
\* ------------------------------------------------------------------------
MAX_LOGS == 100

MAX_THREATS == 50

\* getAccessLogs / getThreatReports: the stored list, or [] when the store fails.
GetLogs(stored, getOk) == IF getOk THEN stored ELSE <<>>

\* unshift(entry), splice(max), setItemAsync: the list the store holds afterwards.
PutLog(stored, entry, max, getOk, setOk) ==
    LET existing == <<entry>> \o GetLogs(stored, getOk)
        kept == IF Len(existing) > max THEN SubSeq(existing, 1, max) ELSE existing
    IN  IF setOk THEN kept ELSE stored

\* ------------------------------------------------------------------------
\* NFCManager.readNFCTag (lib/nfc/index.ts), one call at a time
\* ------------------------------------------------------------------------
\* core.readNFCTag() with no other call in flight: what it throws, or "none".
CoreReadThrows(hw) == IF ~isInitialized THEN "NotInitialized" ELSE hw

\* readNFCTag(): what it throws ("none": it returns tagData), the state of the
\* security manager and of the two logs afterwards, and how many entries it
\* handed to logNFCAccess and logThreatReport.
TopLevelRead(hw, tagId, getOk, setOk) ==
    LET coreThrows == CoreReadThrows(hw)
        detection == PerformThreatDetection(mgrDetect, mgrAttempts, tagId, tagMem)
        threatReport == detection.report
        threatEntry == [threatType |-> threatReport.threatType, tagId |-> tagId]
        accessEntry == [tagId |-> tagId]
    IN  IF coreThrows # "none"
        THEN [thrown |-> coreThrows, attempts |-> mgrAttempts, access |-> accessLogs,
              threats |-> threatReports, accessLogged |-> 0, threatLogged |-> 0]
        ELSE IF threatReport.blocked
        THEN [thrown |-> "ThreatBlocked", attempts |-> detection.attempts,
              access |-> accessLogs,
              threats |-> PutLog(threatReports, threatEntry, MAX_THREATS, getOk, setOk),
              accessLogged |-> 0, threatLogged |-> 1]
        ELSE [thrown |-> "none", attempts |-> detection.attempts,
              access |-> PutLog(accessLogs, accessEntry, MAX_LOGS, getOk, setOk),
              threats |-> IF threatReport # NoReport
                          THEN PutLog(threatReports, threatEntry, MAX_THREATS, getOk, setOk)
                          ELSE threatReports,
              accessLogged |-> 1,
              threatLogged |-> IF threatReport # NoReport THEN 1 ELSE 0]

\* ------------------------------------------------------------------------
\* SimpleSecureNFCManager.readSecureTag
\* ------------------------------------------------------------------------
SecurityEvent(type, severity, blocked) ==
    [type |-> type, severity |-> severity, blocked |-> blocked]

\* One turn of the loop over tagData.ndefRecords.
VerifyRecord(acc, record, at) ==
    IF Len(record) > 0 /\ Includes(record, <<"S", ":">>)
    THEN LET verification == VerifySignature(record, at)
             invalid == IF ~verification.isValid
                        THEN <<SecurityEvent("SIGNATURE_INVALID", "HIGH", TRUE)>>
                        ELSE <<>>
             expired == IF verification.isExpired
                        THEN <<SecurityEvent("EXPIRED_SIGNATURE", "MEDIUM", TRUE)>>
                        ELSE <<>>
         IN  [isValid |-> verification.isValid,
              isExpired |-> verification.isExpired,
              shouldBlock |-> acc.shouldBlock \/ ~verification.isValid \/ verification.isExpired,
              events |-> acc.events \o invalid \o expired]
    ELSE acc

RECURSIVE VerifyRecords(_, _, _)
VerifyRecords(acc, records, at) ==
    IF Len(records) = 0 THEN acc
    ELSE VerifyRecords(VerifyRecord(acc, records[1], at), Tail(records), at)

\* A mutant of the decision: the blocking events are left out of it.
AccessDecisionIgnoresBlock(isValid, isExpired, shouldBlock) ==
    isValid /\ ~isExpired

\* A mutant of the decision: a tag is let in when nothing blocks it.
AccessDecisionWithoutSignature(isValid, isExpired, shouldBlock) ==
    ~isExpired /\ ~shouldBlock

\* const accessGranted = isValid && !isExpired && !shouldBlock
AccessDecision(isValid, isExpired, shouldBlock) ==
    isValid /\ ~isExpired /\ ~shouldBlock

\* The part of readSecureTag after nfcManager.readNFCTag() returned: threat
\* detection by the manager's own SecurityManager, the loop over the records
\* and the decision.
SecureAnalysis(tagId, records, at) ==
    LET detection == PerformThreatDetection(secDetect, secAttempts, tagId, records)
        threatReport == detection.report
        verified == VerifyRecords([isValid |-> FALSE, isExpired |-> FALSE,
                                   shouldBlock |-> FALSE, events |-> <<>>], records, at)
        events == IF threatReport # NoReport
                  THEN verified.events \o <<SecurityEvent(threatReport.threatType,
                                                          threatReport.severity,
                                                          threatReport.blocked)>>
                  ELSE verified.events
        shouldBlock == verified.shouldBlock \/ (threatReport # NoReport /\ threatReport.blocked)
    IN  [attempts |-> detection.attempts,
         isValid |-> verified.isValid,
         isExpired |-> verified.isExpired,
         shouldBlock |-> shouldBlock,
         events |-> events,
         accessGranted |-> AccessDecision(verified.isValid, verified.isExpired, shouldBlock)]

\* ------------------------------------------------------------------------
\* The top-level calls, one at a time (SpecMgr)
\* ------------------------------------------------------------------------
MaxReads == 7

MaxNow == 300001

\* How far the clock may move between two calls: to the last instant a
\* signature made at time 0 is still fresh, or just past it.
ClockSteps == {SignatureLifetime, SignatureLifetime + 1}

\* Math.random().toString(36).substring(2, 8), shortened to one character.
Nonces == {<<"x">>}

\* The data handed to writeSecureTag.
SecureInputs == {<<"A", "B">>}

\* A signed payload copied from a tag written at time 0.
ClonedPayload == SecureData(<<"A", "B">>, 0, <<"x">>)

\* A payload whose signature field does not match its content.
ForgedPayload == <<"A", "B", "|", "T", ":", "0", "|", "N", ":", "x", "|", "S", ":", "0", "0">>

\* The text arrays handed to writeNFCTag: plain text, text holding 'error', a
\* forged payload, text holding 'S:' inside a word, a forged record followed by
\* a cloned one.
RawWrites == {
    << <<"A", "B">> >>,
    << <<"e", "r", "r", "o", "r">> >>,
    << ForgedPayload >>,
    << <<"A", "S", ":", "B">> >>,
    << ForgedPayload, ClonedPayload >> }

NoCall == [kind |-> "none", thrown |-> "none", signed |-> FALSE,
           accessLogged |-> 0, threatLogged |-> 0,
           isValid |-> FALSE, isExpired |-> FALSE, shouldBlock |-> FALSE,
           events |-> <<>>, accessGranted |-> FALSE]

\* record.payload && record.payload.includes('S:') holds of some record.
HasSignedRecord(records) ==
    \E i \in 1..Len(records) : Len(records[i]) > 0 /\ Includes(records[i], <<"S", ":">>)

MgrInit ==
    /\ now = 0
    /\ tagMem = <<>>
    /\ mgrDetect = TRUE
    /\ secDetect = TRUE
    /\ mgrAttempts = [t \in TagIds |-> 0]
    /\ secAttempts = [t \in TagIds |-> 0]
    /\ accessLogs = <<>>
    /\ threatReports = <<>>
    /\ last = NoCall

\* nfcManager.initialize() with nothing in flight.
MgrInitialize ==
    /\ \E ok \in BOOLEAN : isInitialized' = (ok \/ isInitialized)
    /\ UNCHANGED <<isReading, pc, op, pending, outcome, cancelInvoked, hwHolder>>
    /\ UNCHANGED <<now, mgrVars, patVars, sigVars, moreVars>>

\* No read has been counted or logged yet.
NothingReadYet ==
    /\ \A t \in TagIds : mgrAttempts[t] = 0 /\ secAttempts[t] = 0
    /\ accessLogs = <<>>
    /\ threatReports = <<>>

\* nfcManager.enableThreatDetection(enabled), called before the first read.
EnableThreatDetection ==
    /\ NothingReadYet
    /\ \E enabled \in BOOLEAN : mgrDetect' = enabled
    /\ UNCHANGED <<coreVars, patVars, sigVars, moreVars, now, tagMem, secDetect, mgrAttempts, secAttempts, accessLogs,
                   threatReports, last>>

AdvanceClock ==
    /\ \E d \in ClockSteps : now + d <= MaxNow /\ now' = now + d
    /\ last' = NoCall
    /\ UNCHANGED <<coreVars, patVars, sigVars, moreVars, tagMem, mgrDetect, secDetect, mgrAttempts, secAttempts,
                   accessLogs, threatReports>>

\* nfcManager.writeNFCTag(textData) with nothing in flight: the records reach
\* the tag when the manager is initialised and the hardware write succeeds.
MgrWriteNFCTag ==
    /\ \E texts \in RawWrites, hwOk \in BOOLEAN :
         tagMem' = IF isInitialized /\ hwOk THEN texts ELSE tagMem
    /\ last' = NoCall
    /\ UNCHANGED <<coreVars, patVars, sigVars, moreVars, now, mgrDetect, secDetect, mgrAttempts, secAttempts,
                   accessLogs, threatReports>>

\* simpleSecureNFCManager.writeSecureTag(data)
WriteSecureTag ==
    /\ \E data \in SecureInputs, nonce \in Nonces, hwOk \in BOOLEAN :
         LET secureData == SecureData(data, now, nonce)
         IN  tagMem' = IF secureData # <<>> /\ isInitialized /\ hwOk
                       THEN <<secureData>>
                       ELSE tagMem
    /\ last' = NoCall
    /\ UNCHANGED <<coreVars, patVars, sigVars, moreVars, now, mgrDetect, secDetect, mgrAttempts, secAttempts,
                   accessLogs, threatReports>>

ReadsLeft(tagId) ==
    /\ mgrAttempts[tagId] < MaxReads
    /\ secAttempts[tagId] < MaxReads
    /\ Len(accessLogs) < MaxReads
    /\ Len(threatReports) < MaxReads

\* nfcManager.readNFCTag(), the store working.
MgrReadNFCTag ==
    /\ \E hw \in {"none", "hwError", "noTag"}, tagId \in TagIds :
         /\ ReadsLeft(tagId)
         /\ \E r \in {TopLevelRead(hw, tagId, TRUE, TRUE)} :
                /\ mgrAttempts' = r.attempts
                /\ accessLogs' = r.access
                /\ threatReports' = r.threats
                /\ last' = [NoCall EXCEPT !.kind = "read", !.thrown = r.thrown,
                                          !.signed = HasSignedRecord(tagMem),
                                          !.accessLogged = r.accessLogged,
                                          !.threatLogged = r.threatLogged]
    /\ UNCHANGED <<coreVars, patVars, sigVars, moreVars, now, tagMem, mgrDetect, secDetect, secAttempts>>

\* simpleSecureNFCManager.readSecureTag(), the store working:
\* nfcManager.readNFCTag() first; what it throws is thrown again.
ReadSecureTag ==
    /\ \E hw \in {"none", "hwError", "noTag"}, tagId \in TagIds :
         /\ ReadsLeft(tagId)
         /\ \E r \in {TopLevelRead(hw, tagId, TRUE, TRUE)} :
                /\ mgrAttempts' = r.attempts
                /\ accessLogs' = r.access
                /\ threatReports' = r.threats
                /\ IF r.thrown # "none"
                   THEN /\ secAttempts' = secAttempts
                        /\ last' = [NoCall EXCEPT !.kind = "secureRead", !.thrown = r.thrown,
                                                  !.signed = HasSignedRecord(tagMem),
                                                  !.accessLogged = r.accessLogged,
                                                  !.threatLogged = r.threatLogged]
                   ELSE \E a \in {SecureAnalysis(tagId, tagMem, now)} :
                        /\ secAttempts' = a.attempts
                        /\ last' = [kind |-> "secureRead", thrown |-> "none",
                                    signed |-> HasSignedRecord(tagMem),
                                    accessLogged |-> r.accessLogged,
                                    threatLogged |-> r.threatLogged,
                                    isValid |-> a.isValid, isExpired |-> a.isExpired,
                                    shouldBlock |-> a.shouldBlock, events |-> a.events,
                                    accessGranted |-> a.accessGranted]
    /\ UNCHANGED <<coreVars, patVars, sigVars, moreVars, now, tagMem, mgrDetect, secDetect>>

MgrNext ==
    \/ MgrInitialize
    \/ EnableThreatDetection
    \/ AdvanceClock
    \/ MgrWriteNFCTag
    \/ WriteSecureTag
    \/ MgrReadNFCTag
    \/ ReadSecureTag


\* ------------------------------------------------------------------------
\* NFCSecurityManager (lib/firebase.ts): configuration and signed payloads
\* ------------------------------------------------------------------------
\* The configuration the manager is constructed with (defaultConfig).
signatureExpiration == 300000

maxAccessesPerMinute == 3

maxLocationsPerHour == 2

\* config.privateKey, shortened to one character.
ConfigPrivateKey == <<"y">>

\* recordAccess keeps this many entries of a sequence.
maxEntries == 20

oneMinute == 60000

oneHour == 3600000

\* 1000 * 60 * 60 * 24: the device fingerprint changes once a day.
oneDay == 86400000

\* An interval under this many milliseconds is a very short interval.
ShortInterval == 5000

\* More very short intervals than this raise the second RAPID_ACCESS event.
MaxShortIntervals == 2

\* analyzeBehavior looks at the last 10 locations and the last 5 devices.
RecentLocations == 10

RecentDevices == 5

\* More distinct recent devices than this raise DEVICE_ANOMALY.
MaxRecentDevices == 2

\* Hours before 6 or after 22 are unusual; a historical hour closer than 2
\* hours to the current one makes the time a usual one.
EarliestUsualHour == 6

LatestUsualHour == 22

UsualHourDistance == 2

\* storeSecurityEvents persists the last 100 events.
MaxStoredEvents == 100

\* A call made without its optional location argument.
NoLocation == ""

\* Array.prototype.slice(-n)
LastN(s, n) == IF Len(s) > n THEN SubSeq(s, Len(s) - n + 1, Len(s)) ELSE s

\* new Date(time).getHours(), the device living on UTC.
GetHours(time) == (time \div oneHour) % 24

\* JSON.stringify(deviceInfo): the platform and version of the one device,
\* shortened to one character, and the day number.
DeviceInfo(at) == <<"x", ":">> \o IntToString(at \div oneDay)

\* getDeviceFingerprint() called at time `at`.
GetDeviceFingerprint(at) == Sha256Hex(DeviceInfo(at))

\* signData(data)
SignData(data) == Sha256Hex(data \o ConfigPrivateKey)

\* createSignedPayload(data) called at time `at` without a location.
CreateSignedPayload(data, at, nonce) ==
    LET payload == data \o <<"|", "T", "I", "M", "E", ":">> \o IntToString(at)
                        \o <<"|", "N", "O", "N", "C", "E", ":">> \o nonce
                        \o <<"|", "D", "E", "V", "I", "C", "E", ":">> \o GetDeviceFingerprint(at)
    IN  payload \o <<"|", "S", "I", "G", ":">> \o SignData(payload)

\* The part of verifySignedTag that only looks at the payload: the index of
\* the SIG: field (0 stands for -1), whether the signature is the expected
\* one, and the digits captured by /TIME:(\d+)/ (empty: no match).
CheckSignedTag(tagPayload) ==
    LET parts == Split(tagPayload, "|")
        signatureIndex == FindIndexStartsWith(parts, <<"S", "I", "G", ":">>)
    IN  IF signatureIndex = 0
        THEN [signatureIndex |-> 0, isValid |-> FALSE, timeMatch |-> <<>>]
        ELSE LET signature == SubSeq(parts[signatureIndex], 5, Len(parts[signatureIndex]))
                 payloadWithoutSig == Join(SubSeq(parts, 1, signatureIndex - 1), "|")
             IN  [signatureIndex |-> signatureIndex,
                  isValid |-> signature = SignData(payloadWithoutSig),
                  timeMatch |-> MatchDigitsAfter(payloadWithoutSig, <<"T", "I", "M", "E", ":">>)]

\* ------------------------------------------------------------------------
\* NFCSecurityManager: recordAccess and analyzeBehavior
\* ------------------------------------------------------------------------
EmptyPattern == [times |-> <<>>, locations |-> <<>>, devices |-> <<>>, intervals |-> <<>>]

\* recordAccess from 'Add current access' to the trimming: what the pattern
\* object holds afterwards.
PushAccess(pattern, at, deviceId, location) ==
    LET times == Append(pattern.times, at)
        devices == Append(pattern.devices, deviceId)
        locations == IF location # NoLocation
                     THEN Append(pattern.locations, location)
                     ELSE pattern.locations
        intervals == IF Len(times) > 1
                     THEN Append(pattern.intervals, at - times[Len(times) - 1])
                     ELSE pattern.intervals
    IN  IF Len(times) > maxEntries
        THEN [times |-> LastN(times, maxEntries),
              locations |-> LastN(locations, maxEntries),
              devices |-> LastN(devices, maxEntries),
              intervals |-> LastN(intervals, maxEntries)]
        ELSE [times |-> times, locations |-> locations, devices |-> devices,
              intervals |-> intervals]

NewSecurityEvent(type, severity, description, tagId, at, blocked) ==
    [type |-> type, severity |-> severity, description |-> description,
     tagId |-> tagId, timestamp |-> at, blocked |-> blocked]

\* 1. Check for rapid access attempts
RapidAccessEvents(pattern, at, tagId) ==
    LET Recent(time) == at - time < oneMinute
        recentAccesses == SelectSeq(pattern.times, Recent)
    IN  IF Len(recentAccesses) > maxAccessesPerMinute
        THEN <<NewSecurityEvent("RAPID_ACCESS", "HIGH", "accesses in last minute", tagId, at, TRUE)>>
        ELSE <<>>

\* 2. Check for location anomalies
LocationAnomalyEvents(pattern, at, tagId) ==
    LET NonEmpty(loc) == loc # NoLocation
        recentLocations == SelectSeq(LastN(pattern.locations, RecentLocations), NonEmpty)
        uniqueRecentLocations == {recentLocations[i] : i \in DOMAIN recentLocations}
    IN  IF Cardinality(uniqueRecentLocations) > maxLocationsPerHour
        THEN <<NewSecurityEvent("LOCATION_ANOMALY", "MEDIUM", "different locations recently",
                              tagId, at, FALSE)>>
        ELSE <<>>

\* A mutant of the device rule: every device of the window is counted, not
\* the last five.
DeviceAnomalyEventsOverWindow(pattern, at, tagId) ==
    LET uniqueDevices == {pattern.devices[i] : i \in DOMAIN pattern.devices}
    IN  IF Cardinality(uniqueDevices) > MaxRecentDevices
        THEN <<NewSecurityEvent("DEVICE_ANOMALY", "HIGH", "different devices recently",
                              tagId, at, TRUE)>>
        ELSE <<>>

\* 3. Check for device switching
DeviceAnomalyEvents(pattern, at, tagId) ==
    LET recentDevices == LastN(pattern.devices, RecentDevices)
        uniqueRecentDevices == {recentDevices[i] : i \in DOMAIN recentDevices}
    IN  IF Cardinality(uniqueRecentDevices) > MaxRecentDevices
        THEN <<NewSecurityEvent("DEVICE_ANOMALY", "HIGH", "different devices recently",
                              tagId, at, TRUE)>>
        ELSE <<>>

\* A mutant of the interval rule: two very short intervals are enough.
ShortIntervalEventsAtTwo(pattern, at, tagId) ==
    LET VeryShort(interval) == interval < ShortInterval
        veryShortIntervals == SelectSeq(pattern.intervals, VeryShort)
    IN  IF Len(veryShortIntervals) >= MaxShortIntervals
        THEN <<NewSecurityEvent("RAPID_ACCESS", "HIGH", "attempts within 5 seconds", tagId, at, TRUE)>>
        ELSE <<>>

\* 4. Check for impossible time intervals
ShortIntervalEvents(pattern, at, tagId) ==
    LET VeryShort(interval) == interval < ShortInterval
        veryShortIntervals == SelectSeq(pattern.intervals, VeryShort)
    IN  IF Len(veryShortIntervals) > MaxShortIntervals
        THEN <<NewSecurityEvent("RAPID_ACCESS", "HIGH", "attempts within 5 seconds", tagId, at, TRUE)>>
        ELSE <<>>

\* 5. Check for unusual time patterns
UnusualTimeEvents(pattern, at, tagId) ==
    LET currentHour == GetHours(at)
        isUnusualTime == currentHour < EarliestUsualHour \/ currentHour > LatestUsualHour
        Near(time) == LET d == GetHours(time) - currentHour
                      IN  (IF d < 0 THEN -d ELSE d) < UsualHourDistance
        usuallyAccessesAtThisTime == Len(SelectSeq(pattern.times, Near)) > 0
    IN  IF isUnusualTime /\ ~usuallyAccessesAtThisTime
        THEN <<NewSecurityEvent("LOCATION_ANOMALY", "LOW", "unusual access time", tagId, at, FALSE)>>
        ELSE <<>>

\* The analyser stopping at the first rule that fires.
AnalyzeBehaviorFirstMatch(pattern, at, tagId) ==
    LET all == RapidAccessEvents(pattern, at, tagId) \o LocationAnomalyEvents(pattern, at, tagId)
               \o DeviceAnomalyEvents(pattern, at, tagId) \o ShortIntervalEvents(pattern, at, tagId)
               \o UnusualTimeEvents(pattern, at, tagId)
    IN  IF Len(all) > 1 THEN <<all[1]>> ELSE all
\* analyzeBehavior(tagId, payload) run at time `at` on the pattern the map
\* holds for tagId.
AnalyzeBehavior(pattern, at, tagId) ==
    RapidAccessEvents(pattern, at, tagId) \o LocationAnomalyEvents(pattern, at, tagId)
    \o DeviceAnomalyEvents(pattern, at, tagId) \o ShortIntervalEvents(pattern, at, tagId)
    \o UnusualTimeEvents(pattern, at, tagId)

\* ------------------------------------------------------------------------
\* NFCSecurityManager under interleaved callers (SpecPattern)
\* ------------------------------------------------------------------------
\* Calls made in a run.
MaxCalls == 22

\* Departures from the regular traffic in a run.  The regular traffic is one
\* verifySignedTag of the genuine payload at location "A" each second, each
\* call made after the previous one has returned.
MaxVariations == 2

\* The departures are taken among the first calls of a run.
EarlyCalls == 3

\* A run that has used all its departures stops after this many calls; the
\* other runs go on to MaxCalls calls, past the point where recordAccess
\* starts to evict.
ShortRun == 6

\* Date.now() moves by this much between two calls of the regular traffic.
RegularElapsed == 1000

\* The other distance between two calls: a day and three hours, which moves
\* both the day of the device fingerprint and the hour of the day.
LongElapsed == {oneDay + 3 * oneHour}

RegularLocation == "A"

OtherLocations == {NoLocation, "B", "C"}

\* The payload createSignedPayload('A') returned at time 0.
GenuinePayload == CreateSignedPayload(<<"A">>, 0, <<"x">>)

\* The genuine payload with its data changed, and a payload without SIG: field.
TamperedPayload == <<"B">> \o Tail(GenuinePayload)

UnsignedPayload == <<"A", "|", "T", "I", "M", "E", ":", "0">>

\* The payloads handed to verifySignedTag, and what verifySignedTag finds in
\* each of them.
TagPayloads == {GenuinePayload, TamperedPayload, UnsignedPayload}

Checked == [tagPayload \in TagPayloads |-> CheckSignedTag(tagPayload)]

CheckedOf(tagPayload) ==
    IF tagPayload \in TagPayloads THEN Checked[tagPayload] ELSE CheckSignedTag(tagPayload)

NoFrame == [pc |-> "idle", op |-> "none", tagId |-> "", location |-> "",
            isValid |-> FALSE, isExpired |-> FALSE, events |-> <<>>, shouldBlock |-> FALSE,
            ref |-> 0, now |-> 0, deviceId |-> <<>>]

NoVerdict == [call |-> "none", tagId |-> "", isValid |-> FALSE, isExpired |-> FALSE,
              securityEvents |-> <<>>, shouldBlock |-> FALSE]

PatternInit ==
    /\ patternObjects = <<>>
    /\ accessPatterns = [t \in TagIds |-> 0]
    /\ storedPatterns = <<>>
    /\ securityEvents = <<>>
    /\ storedEvents = <<>>
    /\ frame = [p \in Callers |-> NoFrame]
    /\ verdict = NoVerdict
    /\ recorded = [t \in TagIds |-> <<>>]
    /\ begun = 0
    /\ variations = 0

\* 1 when a call made by p starts while a call of another caller is in flight.
Overlap(p) == IF \E q \in Callers \ {p} : frame[q].pc # "idle" THEN 1 ELSE 0

Departure(regular) == IF regular THEN 0 ELSE 1

\* A call departing in `cost` respects from the regular traffic may be made
\* now: a call departs in one respect at most.
CallAllowed(cost) ==
    /\ begun < MaxCalls
    /\ begun >= ShortRun => variations < MaxVariations
    /\ cost <= 1
    /\ variations + cost <= MaxVariations
    /\ cost > 0 => begun < EarlyCalls

\* The callers are interchangeable: a new call is given to the first idle one.
FirstIdle(p) ==
    /\ frame[p].pc = "idle"
    /\ \A q \in Callers : q < p => frame[q].pc # "idle"

\* recordAccess(tagId, location) up to its first await: the pattern object is
\* looked up or created, Date.now() is read, getDeviceFingerprint() is called.
EnterRecordAccess(p, f, at) ==
    LET existing == accessPatterns[f.tagId]
    IN  /\ patternObjects' = IF existing # 0 THEN patternObjects
                             ELSE Append(patternObjects, EmptyPattern)
        /\ frame' = [frame EXCEPT ![p] =
                        [f EXCEPT !.pc = "fingerprint",
                                  !.ref = IF existing # 0 THEN existing
                                          ELSE Len(patternObjects) + 1,
                                  !.now = at,
                                  !.deviceId = GetDeviceFingerprint(at)]]

\* verifySignedTag(tagPayload, tagId, currentLocation) up to the await inside
\* recordAccess: a payload without SIG: field is answered at once; otherwise
\* the signature and the age are judged and recordAccess is entered.  (The
\* await of signData in between is not a step of its own: the call has
\* touched nothing shared before it.)
VerifySignedTag(p) ==
    /\ FirstIdle(p)
    /\ \E el \in {RegularElapsed} \cup LongElapsed,
          tagPayload \in TagPayloads,
          tagId \in TagIds,
          currentLocation \in {RegularLocation} \cup OtherLocations :
         LET cost == Departure(el = RegularElapsed) + Departure(tagPayload = GenuinePayload)
                     + Departure(currentLocation = RegularLocation) + Overlap(p)
             checked == Checked[tagPayload]
             isExpired == /\ checked.timeMatch # <<>>
                          /\ now' - ParseInt(checked.timeMatch) > signatureExpiration
             invalid == IF checked.isValid THEN <<>>
                        ELSE <<NewSecurityEvent("SIGNATURE_INVALID", "HIGH",
                                                "invalid cryptographic signature", tagId, now', TRUE)>>
             expired == IF isExpired
                        THEN <<NewSecurityEvent("EXPIRED_SIGNATURE", "MEDIUM",
                                                "signature expired", tagId, now', TRUE)>>
                        ELSE <<>>
         IN  /\ CallAllowed(cost)
             /\ now' = now + el
             /\ begun' = begun + 1
             /\ variations' = variations + cost
             /\ IF checked.signatureIndex = 0
                THEN /\ verdict' = [call |-> "verifySignedTag", tagId |-> tagId, isValid |-> FALSE,
                                    isExpired |-> FALSE,
                                    securityEvents |->
                                        <<NewSecurityEvent("SIGNATURE_INVALID", "HIGH",
                                                           "no signature found", tagId, now', TRUE)>>,
                                    shouldBlock |-> TRUE]
                     /\ UNCHANGED <<frame, patternObjects>>
                ELSE /\ EnterRecordAccess(p, [NoFrame EXCEPT !.op = "verifySignedTag",
                                                             !.tagId = tagId,
                                                             !.location = currentLocation,
                                                             !.isValid = checked.isValid,
                                                             !.isExpired = isExpired,
                                                             !.events = invalid \o expired,
                                                             !.shouldBlock =
                                                                 (~checked.isValid \/ isExpired)],
                                          now')
                     /\ UNCHANGED verdict
    /\ UNCHANGED <<coreVars, mgrVars, sigVars, moreVars, accessPatterns, storedPatterns, securityEvents,
                   storedEvents, recorded>>

\* recordAccess(tagId, location) called on its own, which is one departure
\* from the regular traffic, during a call in flight or not.
RecordAccess(p) ==
    /\ FirstIdle(p)
    /\ \E el \in {RegularElapsed}, tagId \in TagIds, location \in {RegularLocation} :
         LET cost == 1
         IN  /\ CallAllowed(cost)
             /\ now' = now + el
             /\ begun' = begun + 1
             /\ variations' = variations + cost
             /\ EnterRecordAccess(p, [NoFrame EXCEPT !.op = "recordAccess", !.tagId = tagId,
                                                     !.location = location], now')
    /\ UNCHANGED <<coreVars, mgrVars, sigVars, moreVars, accessPatterns, storedPatterns, securityEvents,
                   storedEvents, verdict, recorded>>

\* What Object.fromEntries(this.accessPatterns) holds.
PatternsSnapshot(map, objects) ==
    [t \in {u \in TagIds : map[u] # 0} |-> objects[map[t]]]

\* getDeviceFingerprint has resolved: the access is pushed on the pattern
\* object the call holds, the sequences are trimmed, the object is put in the
\* map and the map is handed to the store.
FingerprintSettles(p) ==
    /\ frame[p].pc = "fingerprint"
    /\ LET f == frame[p]
           pattern == PushAccess(patternObjects[f.ref], f.now, f.deviceId, f.location)
       IN  /\ patternObjects' = [patternObjects EXCEPT ![f.ref] = pattern]
           /\ accessPatterns' = [accessPatterns EXCEPT ![f.tagId] = f.ref]
           /\ storedPatterns' = PatternsSnapshot(accessPatterns', patternObjects')
           /\ recorded' = [recorded EXCEPT ![f.tagId] =
                              Append(@, [time |-> f.now, location |-> f.location,
                                         deviceId |-> f.deviceId])]
           /\ frame' = [frame EXCEPT ![p].pc = "storePatterns"]
    /\ UNCHANGED <<coreVars, now, mgrVars, sigVars, moreVars, securityEvents, storedEvents, verdict, begun,
                   variations>>

\* The store has answered: recordAccess returns.  Called on its own it is
\* over; inside verifySignedTag the behaviour is analysed, the events are
\* kept and handed to the store, and the result is returned.  (The await of
\* storeSecurityEvents is not a step of its own: the call touches nothing
\* shared after it.)
StorePatternsSettles(p) ==
    /\ frame[p].pc = "storePatterns"
    /\ LET f == frame[p]
       IN  IF f.op = "recordAccess"
           THEN /\ verdict' = [NoVerdict EXCEPT !.call = "recordAccess", !.tagId = f.tagId]
                /\ UNCHANGED <<securityEvents, storedEvents>>
           ELSE LET behavioralEvents ==
                        AnalyzeBehavior(patternObjects[accessPatterns[f.tagId]], now, f.tagId)
                    High(e) == e.severity = "HIGH"
                    highSeverityEvents == SelectSeq(behavioralEvents, High)
                    events == f.events \o behavioralEvents
                IN  /\ securityEvents' = securityEvents \o events
                    /\ storedEvents' = LastN(securityEvents', MaxStoredEvents)
                    /\ verdict' = [call |-> "verifySignedTag", tagId |-> f.tagId,
                                   isValid |-> f.isValid, isExpired |-> f.isExpired,
                                   securityEvents |-> events,
                                   shouldBlock |->
                                       (f.shouldBlock \/ Len(highSeverityEvents) > 0)]
    /\ frame' = [frame EXCEPT ![p] = NoFrame]
    /\ UNCHANGED <<coreVars, now, mgrVars, sigVars, moreVars, patternObjects, accessPatterns, storedPatterns,
                   recorded, begun, variations>>

\* analyzeBehavior(tagId, payload) called on its own, which is one departure
\* from the regular traffic whenever it is made: it has no await.
AnalyzeBehaviorCall ==
    /\ \E el \in {RegularElapsed} \cup LongElapsed, tagId \in TagIds :
         LET cost == 1
         IN  /\ CallAllowed(cost)
             /\ now' = now + el
             /\ begun' = begun + 1
             /\ variations' = variations + cost
             /\ verdict' = [NoVerdict EXCEPT
                              !.call = "analyzeBehavior",
                              !.tagId = tagId,
                              !.securityEvents =
                                  IF accessPatterns[tagId] = 0 THEN <<>>
                                  ELSE AnalyzeBehavior(patternObjects[accessPatterns[tagId]],
                                                       now', tagId)]
    /\ UNCHANGED <<coreVars, mgrVars, sigVars, moreVars, patternObjects, accessPatterns, storedPatterns,
                   securityEvents, storedEvents, frame, recorded>>

PatternNext ==
    \/ \E p \in Callers :
         \/ VerifySignedTag(p)
         \/ RecordAccess(p)
         \/ FingerprintSettles(p)
         \/ StorePatternsSettles(p)
    \/ AnalyzeBehaviorCall

\* ------------------------------------------------------------------------
\* NFCSecurityManager used by one caller that awaits every call (SpecAlone)
\* ------------------------------------------------------------------------
\* Calls made in a run of the one caller.
MaxAloneCalls == 12

\* A third distance between two calls: inside the minute, over five seconds.
SpacedElapsed == 20000

\* verifySignedTag(tagPayload, tagId, currentLocation) called at time `at`
\* with no other call in flight, from its first line to its return: what it
\* leaves in the fields of the manager and what it returns.
VerifySignedTagReturns(tagPayload, tagId, currentLocation, at) ==
    LET checked == CheckedOf(tagPayload)
        isExpired == /\ checked.timeMatch # <<>>
                     /\ at - ParseInt(checked.timeMatch) > signatureExpiration
        invalid == IF checked.isValid THEN <<>>
                   ELSE <<NewSecurityEvent("SIGNATURE_INVALID", "HIGH",
                                           "invalid cryptographic signature", tagId, at, TRUE)>>
        expired == IF isExpired
                   THEN <<NewSecurityEvent("EXPIRED_SIGNATURE", "MEDIUM",
                                           "signature expired", tagId, at, TRUE)>>
                   ELSE <<>>
        existing == accessPatterns[tagId]
        ref == IF existing # 0 THEN existing ELSE Len(patternObjects) + 1
        deviceId == GetDeviceFingerprint(at)
        pattern == PushAccess(IF existing # 0 THEN patternObjects[existing] ELSE EmptyPattern,
                              at, deviceId, currentLocation)
        behavioralEvents == AnalyzeBehavior(pattern, at, tagId)
        High(e) == e.severity = "HIGH"
        events == invalid \o expired \o behavioralEvents
    IN  IF checked.signatureIndex = 0
        THEN [patternObjects |-> patternObjects,
              accessPatterns |-> accessPatterns,
              recorded |-> recorded,
              securityEvents |-> securityEvents,
              verdict |-> [call |-> "verifySignedTag", tagId |-> tagId, isValid |-> FALSE,
                           isExpired |-> FALSE,
                           securityEvents |->
                               <<NewSecurityEvent("SIGNATURE_INVALID", "HIGH",
                                                  "no signature found", tagId, at, TRUE)>>,
                           shouldBlock |-> TRUE]]
        ELSE [patternObjects |-> IF existing # 0
                                 THEN [patternObjects EXCEPT ![existing] = pattern]
                                 ELSE Append(patternObjects, pattern),
              accessPatterns |-> [accessPatterns EXCEPT ![tagId] = ref],
              recorded |-> [recorded EXCEPT ![tagId] =
                               Append(@, [time |-> at, location |-> currentLocation,
                                          deviceId |-> deviceId])],
              securityEvents |-> securityEvents \o events,
              verdict |-> [call |-> "verifySignedTag", tagId |-> tagId,
                           isValid |-> checked.isValid, isExpired |-> isExpired,
                           securityEvents |-> events,
                           shouldBlock |-> (~checked.isValid \/ isExpired
                                            \/ Len(SelectSeq(behavioralEvents, High)) > 0)]]

\* The one caller calls verifySignedTag and awaits its result.  A call among
\* the first ones may depart from the regular traffic in one respect.
VerifySignedTagAlone ==
    /\ \A p \in Callers : frame[p].pc = "idle"
    /\ begun < MaxAloneCalls
    /\ \E el \in {RegularElapsed, SpacedElapsed} \cup LongElapsed,
          tagPayload \in TagPayloads,
          tagId \in TagIds,
          currentLocation \in {RegularLocation} \cup OtherLocations :
         LET cost == Departure(el = RegularElapsed) + Departure(tagPayload = GenuinePayload)
                     + Departure(currentLocation = RegularLocation)
         IN  /\ cost <= 1
             /\ cost > 0 => begun < EarlyCalls
             /\ now' = now + el
             /\ begun' = begun + 1
             /\ LET r == VerifySignedTagReturns(tagPayload, tagId, currentLocation, now')
                IN  /\ patternObjects' = r.patternObjects
                    /\ accessPatterns' = r.accessPatterns
                    /\ storedPatterns' = PatternsSnapshot(r.accessPatterns, r.patternObjects)
                    /\ recorded' = r.recorded
                    /\ securityEvents' = r.securityEvents
                    /\ storedEvents' = IF Checked[tagPayload].signatureIndex = 0 THEN storedEvents
                                       ELSE LastN(r.securityEvents, MaxStoredEvents)
                    /\ verdict' = r.verdict
    /\ UNCHANGED <<coreVars, mgrVars, sigVars, moreVars, frame, variations>>

AloneNext == VerifySignedTagAlone

\* ------------------------------------------------------------------------
\* One payload signed, changed and verified (SpecSign)
\* ------------------------------------------------------------------------
\* The latest time a payload is signed at.
MaxSignTime == 1

\* The longest time between the signing of a payload and a verification.
MaxElapsed == 300001

\* Verifications made in a run.
MaxVerifications == 2

\* The times after the signing Date.now() is read at: a millisecond later,
\* at the end of the lifetime of the signature, and past it.
ElapsedTimes == {1, signatureExpiration, MaxElapsed}

\* The two signing managers, and the names of the time field and of the
\* signature field of each one's payload.
SignManagers == {"SimpleSecureNFCManager", "NFCSecurityManager"}

TimeField(mgr) ==
    IF mgr = "SimpleSecureNFCManager" THEN <<"T", ":">> ELSE <<"T", "I", "M", "E", ":">>

SignatureField(mgr) ==
    IF mgr = "SimpleSecureNFCManager" THEN <<"S", ":">> ELSE <<"S", "I", "G", ":">>

\* Data one character longer than writeSecureTag leaves whole.
LongData == [i \in 1..(MaxSecureData + 1) |-> "A"]

\* A payload signed with the manager's key that has no time field, and a
\* payload in which no field is named like the signature field.
TimelessPayload(mgr) ==
    <<"A", "|">> \o SignatureField(mgr)
    \o (IF mgr = "SimpleSecureNFCManager" THEN ShortSignature(<<"A">>) ELSE SignData(<<"A">>))

FieldlessPayload(mgr) ==
    <<"A">> \o SignatureField(mgr) \o <<"B", "|">> \o TimeField(mgr) \o <<"0">>

\* The data handed to a signing call: plain data, data with delimiters and
\* field-like text ('UID:AABBCCDD|SECURE:true'), data that starts with or
\* holds a field named like the signature field, data that is itself a text
\* signed with the manager's key, data named like the time field, and long
\* data.
SignInputs(mgr) ==
    {<<"A">>,
     <<"U", "I", "D", ":", "A", "A", "B", "B", "C", "C", "D", "D", "|",
       "S", "E", "C", "U", "R", "E", ":", "t", "r", "u", "e">>,
     SignatureField(mgr) \o <<"A">>,
     <<"A", "|">> \o SignatureField(mgr) \o <<"B">>,
     TimelessPayload(mgr),
     TimeField(mgr) \o <<"5">>,
     LongData}

\* The number of characters of a signed payload that come before the marker
\* of the signature the signing call appended (its last '|').
SignedLength(payload) ==
    (CHOOSE k \in 1..Len(payload) :
        payload[k] = "|" /\ \A j \in (k + 1)..Len(payload) : payload[j] # "|") - 1

\* The length of the string writeSecureTag builds, of which the model holds
\* the signature in another length.
SecureDataLength(secureData) ==
    SignedLength(secureData) + Len(<<"|", "S", ":">>) + ShortSignatureLength

\* The length of the string createSignedPayload returns when called at time
\* `at`: it holds two whole digests, the device fingerprint and the signature.
SignedPayloadLength(payload, at) ==
    SignedLength(payload) - Len(GetDeviceFingerprint(at)) + DigestLength
    + Len(<<"|", "S", "I", "G", ":">>) + DigestLength

NoSigning == [mgr |-> "none", data |-> <<>>, at |-> 0, payload |-> <<>>, length |-> 0,
              thrown |-> FALSE]

SignInit ==
    /\ signing = NoSigning
    /\ presented = <<>>
    /\ verifications = <<>>

\* Date.now() moves on: before the signing by a millisecond, after it to one
\* of the times above.
SignClockAdvance ==
    /\ Len(verifications) < MaxVerifications
    /\ \E later \in IF signing.mgr = "none" THEN (now + 1)..MaxSignTime
                     ELSE {signing.at + e : e \in ElapsedTimes} :
         /\ later > now
         /\ now' = later
    /\ UNCHANGED <<coreVars, mgrVars, patVars, sigVars, moreVars>>

\* simpleSecureNFCManager.writeSecureTag(data) from its first line to the
\* length check: the string it hands to writeNFCTag, or the error it throws.
WriteSecureTagSigns ==
    /\ signing.mgr = "none"
    /\ \E data \in SignInputs("SimpleSecureNFCManager"), nonce \in Nonces :
         LET secureData == SecureData(data, now, nonce)
         IN  signing' = [mgr |-> "SimpleSecureNFCManager", data |-> data, at |-> now,
                         payload |-> secureData,
                         length |-> IF secureData = <<>> THEN 0
                                    ELSE SecureDataLength(secureData),
                         thrown |-> secureData = <<>>]
    /\ UNCHANGED <<coreVars, now, mgrVars, patVars, presented, verifications, moreVars>>

\* securityManager.createSignedPayload(data): it returns whatever the length.
CreateSignedPayloadCall ==
    /\ signing.mgr = "none"
    /\ \E data \in SignInputs("NFCSecurityManager"), nonce \in Nonces :
         LET payload == CreateSignedPayload(data, now, nonce)
         IN  signing' = [mgr |-> "NFCSecurityManager", data |-> data, at |-> now,
                         payload |-> payload,
                         length |-> SignedPayloadLength(payload, now),
                         thrown |-> FALSE]
    /\ UNCHANGED <<coreVars, now, mgrVars, patVars, presented, verifications, moreVars>>

\* The characters a byte of a payload is changed to.
TamperChars == {"|", "S", ":", "B", "1"}

\* The signed payload with one byte before the signature marker changed.
Tampered(payload) ==
    {[payload EXCEPT ![i] = c] : i \in 1..SignedLength(payload), c \in TamperChars}
    \ {payload}

\* The payloads that may be handed to the verification once a payload is
\* signed: the signed one, its changes (those of the payload of the long
\* data are left out), and the two made elsewhere.
Presentable ==
    {signing.payload}
    \cup (IF signing.data = LongData THEN {} ELSE Tampered(signing.payload))
    \cup {TimelessPayload(signing.mgr), FieldlessPayload(signing.mgr)}

\* A verification may be made by a manager: the first of a run, or again, at
\* a later time, of the signed payload when it is the one verified before.
MayVerify(mgr) ==
    /\ signing.mgr = mgr
    /\ ~signing.thrown
    /\ Len(verifications) < MaxVerifications
    /\ verifications # <<>> =>
          /\ presented = signing.payload
          /\ now > verifications[Len(verifications)].at

\* readSecureTag meets the presented payload as a record of the tag it read:
\* verifySignature(record.payload) and the events pushed for its answer.
VerifySignatureCall ==
    /\ MayVerify("SimpleSecureNFCManager")
    /\ \E payload \in IF verifications = <<>> THEN Presentable ELSE {presented} :
         /\ presented' = payload
         /\ LET r == VerifyRecord([isValid |-> FALSE, isExpired |-> FALSE,
                                   shouldBlock |-> FALSE, events |-> <<>>], payload, now)
            IN  verifications' = Append(verifications,
                                        [at |-> now, isValid |-> r.isValid,
                                         isExpired |-> r.isExpired, events |-> r.events])
    /\ UNCHANGED <<coreVars, now, mgrVars, patVars, signing, moreVars>>

\* securityManager.verifySignedTag(presented payload, tagId), awaited.
VerifySignedTagCall ==
    /\ \A p \in Callers : frame[p].pc = "idle"
    /\ MayVerify("NFCSecurityManager")
    /\ \E payload \in IF verifications = <<>> THEN Presentable ELSE {presented},
          tagId \in TagIds :
         /\ presented' = payload
         /\ LET r == VerifySignedTagReturns(payload, tagId, NoLocation, now)
            IN  /\ patternObjects' = r.patternObjects
                /\ accessPatterns' = r.accessPatterns
                /\ storedPatterns' = PatternsSnapshot(r.accessPatterns, r.patternObjects)
                /\ recorded' = r.recorded
                /\ securityEvents' = r.securityEvents
                /\ storedEvents' = IF r.securityEvents = securityEvents THEN storedEvents
                                   ELSE LastN(r.securityEvents, MaxStoredEvents)
                /\ verdict' = r.verdict
                /\ verifications' = Append(verifications,
                                           [at |-> now, isValid |-> r.verdict.isValid,
                                            isExpired |-> r.verdict.isExpired,
                                            events |-> r.verdict.securityEvents])
    /\ UNCHANGED <<coreVars, now, mgrVars, frame, begun, variations, signing, moreVars>>

SignNext ==
    \/ SignClockAdvance
    \/ WriteSecureTagSigns
    \/ CreateSignedPayloadCall
    \/ VerifySignatureCall
    \/ VerifySignedTagCall


\* ------------------------------------------------------------------------
\* LoggingManager called on its own, one call after the other (SpecLog)
\* ------------------------------------------------------------------------
\* Calls of logNFCAccess or logThreatReport made in a run.
MaxInsertions == 105

NoLogCall == [log |-> "none", entry |-> [tagId |-> "", timestamp |-> 0], getOk |-> TRUE, setOk |-> TRUE, calls |-> 0,
              failed |-> FALSE]

LogInit ==
    /\ logCall = NoLogCall
    /\ written = <<>>

\* A run fills one of the two logs, and SecureStore fails in at most one call
\* of a run: getItemAsync (or JSON.parse), setItemAsync, or both.
MayLog(log, getOk, setOk) ==
    /\ logCall.log \in {"none", log}
    /\ logCall.calls < MaxInsertions
    /\ (~getOk \/ ~setOk) => ~logCall.failed

LogCalled(log, entry, getOk, setOk) ==
    /\ written' = IF setOk THEN Append(written, entry) ELSE written
    /\ logCall' = [log |-> log, entry |-> entry, getOk |-> getOk, setOk |-> setOk,
                   calls |-> logCall.calls + 1,
                   failed |-> logCall.failed \/ ~getOk \/ ~setOk]

\* logging.logNFCAccess(log), awaited.
LogNFCAccess ==
    /\ \E getOk \in BOOLEAN, setOk \in BOOLEAN, tagId \in TagIds :
         /\ MayLog("access", getOk, setOk)
         /\ LET log == [tagId |-> tagId, timestamp |-> logCall.calls + 1]
            IN  /\ accessLogs' = PutLog(accessLogs, log, MAX_LOGS, getOk, setOk)
                /\ LogCalled("access", log, getOk, setOk)
    /\ UNCHANGED <<coreVars, now, patVars, sigVars, codecVars, topVars, detectVars, tagMem, mgrDetect, secDetect,
                   mgrAttempts, secAttempts, threatReports, last>>

\* logging.logThreatReport(report), awaited.
LogThreatReport ==
    /\ \E getOk \in BOOLEAN, setOk \in BOOLEAN, tagId \in TagIds :
         /\ MayLog("threat", getOk, setOk)
         /\ LET report == [threatType |-> "CLONING_ATTEMPT", tagId |-> tagId,
                           timestamp |-> logCall.calls + 1]
            IN  /\ threatReports' = PutLog(threatReports, report, MAX_THREATS, getOk, setOk)
                /\ LogCalled("threat", report, getOk, setOk)
    /\ UNCHANGED <<coreVars, now, patVars, sigVars, codecVars, topVars, detectVars, tagMem, mgrDetect, secDetect,
                   mgrAttempts, secAttempts, accessLogs, last>>

LogNext ==
    \/ LogNFCAccess
    \/ LogThreatReport

\* ------------------------------------------------------------------------
\* NFCManager.readNFCTag under interleaved callers (SpecTop)
\* ------------------------------------------------------------------------
\* Calls of readNFCTag made in a run.
MaxTopReads == 7

NoTopFrame == [pc |-> "idle", entry |-> [tagId |-> "", timestamp |-> 0], list |-> <<>>,
               report |-> NoReport]

TopInit ==
    /\ top = [p \in Callers |-> NoTopFrame]
    /\ topBegun = 0
    /\ topLogged = {}

\* unshift(entry) and splice(max) on the list getAccessLogs / getThreatReports
\* resolved with: the list handed to setItemAsync.
Unshifted(existing, entry, max) ==
    LET all == <<entry>> \o existing
    IN  IF Len(all) > max THEN SubSeq(all, 1, max) ELSE all

\* The first reads of a run may be made while another read is in flight; the
\* later ones are made with every earlier one over.
EarlyTopReads == 2

\* The callers are interchangeable: a new read is given to the first idle
\* one.
TopMayRead(p) ==
    /\ top[p].pc = "idle"
    /\ \A q \in Callers : q < p => top[q].pc # "idle"
    /\ topBegun < MaxTopReads
    /\ topBegun >= EarlyTopReads => \A q \in Callers : top[q].pc = "idle"

\* nfcManager.readNFCTag() up to the first await of core.readNFCTag(): the
\* guards of the core manager reject the call or let it in.
TopReadNFCTag(p) ==
    /\ TopMayRead(p)
    /\ ReadNFCTag(p)
    /\ topBegun' = topBegun + 1
    /\ \E tagId \in TagIds :
         top' = IF pc'[p] = "idle" THEN top
                ELSE [top EXCEPT ![p] = [NoTopFrame EXCEPT
                                           !.pc = "core",
                                           !.entry = [tagId |-> tagId,
                                                      timestamp |-> topBegun + 1]]]
    /\ UNCHANGED <<now, mgrVars, patVars, sigVars, codecVars, logVars, detectVars, topLogged>>

\* An await of core.readNFCTag() ends.  When it was the last one the core
\* call settles: what it throws is thrown again; when it returns the tag,
\* performThreatDetection runs and the first call to the store is made.
TopCoreSettles(p) ==
    /\ top[p].pc = "core"
    /\ \/ RequestTechnologySettles(p)
       \/ GetTagSettles(p)
       \/ HapticsSettles(p)
       \/ ParseTagDataSettles(p)
       \/ CancelSettles(p)
    /\ IF pc'[p] # "idle"
       THEN UNCHANGED <<top, mgrAttempts>>
       ELSE IF outcome'[p] # "ok"
       THEN /\ top' = [top EXCEPT ![p] = NoTopFrame]
            /\ UNCHANGED mgrAttempts
       ELSE LET detection == PerformThreatDetection(mgrDetect, mgrAttempts,
                                                    top[p].entry.tagId, tagMem)
            IN  /\ mgrAttempts' = detection.attempts
                /\ top' = [top EXCEPT ![p].pc = IF detection.report.blocked
                                                THEN "getThreatReports"
                                                ELSE "getAccessLogs",
                                      ![p].report = detection.report]
    /\ UNCHANGED <<now, patVars, sigVars, codecVars, logVars, detectVars, topBegun, topLogged, tagMem, mgrDetect,
                   secDetect, secAttempts, accessLogs, threatReports, last>>

\* logNFCAccess: getAccessLogs() has resolved; the entry is put at the head
\* of the list it returned and setItemAsync is called with the result.
GetAccessLogsSettles(p) ==
    /\ top[p].pc = "getAccessLogs"
    /\ top' = [top EXCEPT ![p].pc = "setAccessLogs",
                          ![p].list = Unshifted(accessLogs, top[p].entry, MAX_LOGS)]
    /\ UNCHANGED <<coreVars, now, mgrVars, patVars, sigVars, codecVars, logVars, detectVars, topBegun, topLogged>>

\* logNFCAccess: setItemAsync has resolved and logNFCAccess returns; a report
\* that does not block is logged next, otherwise readNFCTag returns.
SetAccessLogsSettles(p) ==
    /\ top[p].pc = "setAccessLogs"
    /\ accessLogs' = top[p].list
    /\ topLogged' = topLogged \cup {top[p].entry}
    /\ top' = [top EXCEPT ![p] = IF top[p].report # NoReport
                                 THEN [top[p] EXCEPT !.pc = "getThreatReports", !.list = <<>>]
                                 ELSE NoTopFrame]
    /\ UNCHANGED <<coreVars, now, patVars, sigVars, codecVars, logVars, detectVars, topBegun, tagMem, mgrDetect,
                   secDetect, mgrAttempts, secAttempts, threatReports, last>>

\* logThreatReport: getThreatReports() has resolved.
GetThreatReportsSettles(p) ==
    /\ top[p].pc = "getThreatReports"
    /\ top' = [top EXCEPT ![p].pc = "setThreatReports",
                          ![p].list = Unshifted(threatReports,
                                                [threatType |-> top[p].report.threatType,
                                                 tagId |-> top[p].entry.tagId],
                                                MAX_THREATS)]
    /\ UNCHANGED <<coreVars, now, mgrVars, patVars, sigVars, codecVars, logVars, detectVars, topBegun, topLogged>>

\* logThreatReport: setItemAsync has resolved; readNFCTag throws when the
\* report blocks and returns the tag otherwise.
SetThreatReportsSettles(p) ==
    /\ top[p].pc = "setThreatReports"
    /\ threatReports' = top[p].list
    /\ top' = [top EXCEPT ![p] = NoTopFrame]
    /\ UNCHANGED <<coreVars, now, patVars, sigVars, codecVars, logVars, detectVars, topBegun, topLogged, tagMem,
                   mgrDetect, secDetect, mgrAttempts, secAttempts, accessLogs, last>>

\* nfcManager.initialize() and nfcManager.writeNFCTag(textData), made before
\* the first read of a run.
TopInitialize ==
    /\ topBegun = 0
    /\ MgrInitialize

TopWriteNFCTag ==
    /\ topBegun = 0
    /\ MgrWriteNFCTag

TopNext ==
    \/ TopInitialize
    \/ TopWriteNFCTag
    \/ \E p \in Callers :
         \/ TopReadNFCTag(p)
         \/ TopCoreSettles(p)
         \/ GetAccessLogsSettles(p)
         \/ SetAccessLogsSettles(p)
         \/ GetThreatReportsSettles(p)
         \/ SetThreatReportsSettles(p)

\* ------------------------------------------------------------------------
\* A SecurityManager called on its own (SpecDetect)
\* ------------------------------------------------------------------------
\* performThreatDetection calls made for one tag id in a run.
MaxAttempts == 9

\* The ids of the tags handed to performThreatDetection.
DetectTagIds == {"04A1", "04B2"}

\* tagData.ndefRecords of the tags: no record, plain text, text holding 'error'.
DetectRecords == {<<>>, << <<"A", "B">> >>, << <<"e", "r", "r", "o", "r">> >>}

NoDetection == [calls |-> 0, tagId |-> "", enabled |-> TRUE, report |-> NoReport]

DetectInit ==
    /\ threatDetectionEnabled = TRUE
    /\ readAttempts = [t \in DetectTagIds |-> 0]
    /\ detected = NoDetection
    /\ reported = {}

\* security.enableThreatDetection(enabled)
EnableThreatDetectionCall ==
    /\ \E enabled \in BOOLEAN : threatDetectionEnabled' = enabled
    /\ UNCHANGED <<coreVars, now, mgrVars, patVars, sigVars, codecVars, logVars, topVars, readAttempts,
                   detected, reported>>

\* security.performThreatDetection(tagData), awaited.
PerformThreatDetectionCall ==
    /\ \E tagId \in DetectTagIds, records \in DetectRecords :
         /\ detected.calls < MaxAttempts
         /\ LET detection == PerformThreatDetection(threatDetectionEnabled, readAttempts,
                                                    tagId, records)
            IN  /\ readAttempts' = detection.attempts
                /\ detected' = [calls |-> detected.calls + 1, tagId |-> tagId,
                                enabled |-> threatDetectionEnabled,
                                report |-> detection.report]
                /\ reported' = IF detection.report.threatType = "CLONING_ATTEMPT"
                               THEN reported \cup {tagId}
                               ELSE reported
    /\ UNCHANGED <<coreVars, now, mgrVars, patVars, sigVars, codecVars, logVars, topVars,
                   threatDetectionEnabled>>

DetectNext ==
    \/ EnableThreatDetectionCall
    \/ PerformThreatDetectionCall

\* ------------------------------------------------------------------------
\* The NDEF text records of CoreNFCManager (SpecCodec)
\* ------------------------------------------------------------------------
\* A text is the sequence of its UTF-16 code units, a byte array the sequence
\* of its numbers. The texts of the model stay inside the Basic Multilingual
\* Plane, so that a code unit is a code point.

\* Texts given to writeNFCTag in one call at most.
MaxRecords == 2

\* if (payload.length < 256) flags |= 0x10
ShortRecordLimit == 256

Repeat(c, n) == [i \in 1..n |-> c]

\* The sequences of ss one after the other.
RECURSIVE Flatten(_)
Flatten(ss) ==
    IF ss = <<>> THEN <<>>
    ELSE IF Len(ss) = 1 THEN ss[1]
    ELSE LET half == Len(ss) \div 2
         IN  Flatten(SubSeq(ss, 1, half)) \o Flatten(SubSeq(ss, half + 1, Len(ss)))

\* new TextEncoder().encode(text) of one code unit: its UTF-8 bytes.
Utf8Bytes(c) ==
    IF c < 128 THEN <<c>>
    ELSE IF c < 2048 THEN <<192 + (c \div 64), 128 + (c % 64)>>
    ELSE <<224 + (c \div 4096), 128 + ((c \div 64) % 64), 128 + (c % 64)>>

\* new TextEncoder().encode(text)
TextEncode(text) == Flatten([i \in DOMAIN text |-> Utf8Bytes(text[i])])

\* const langCode = 'en'
LangCode == <<101, 110>>

\* The text record payload of writeNFCTag: [status byte][lang code][text].
TextPayload(text) ==
    LET langCodeBytes == TextEncode(LangCode)
        textBytes == TextEncode(text)
    IN  <<Len(langCodeBytes)>> \o langCodeBytes \o textBytes

\* The record header of writeNFCTag: TNF 0x01, MB 0x80, ME 0x40, SR 0x10.
RecordFlags(index, count, payloadLength) ==
    1 + (IF index = 0 THEN 128 ELSE 0)
      + (IF index = count - 1 THEN 64 ELSE 0)
      + (IF payloadLength < ShortRecordLimit THEN 16 ELSE 0)

\* What the forEach of writeNFCTag pushes for textData[index] (index from 0):
\* the header, the type length, payload.length as one number, 'T', the payload.
RecordBytes(textData, index) ==
    LET payload == TextPayload(textData[index + 1])
    IN  <<RecordFlags(index, Len(textData), Len(payload)), 1, Len(payload), 84>> \o payload

\* ndefMessageBytes of writeNFCTag(textData)
NdefMessageBytes(textData) ==
    Flatten([i \in DOMAIN textData |-> RecordBytes(textData, i - 1)])

\* A record as NfcManager.ndefHandler.getNdefMessage() delivers it.
TagRecord(tnf, type, payload) == [tnf |-> tnf, type |-> type, payload |-> payload]

\* The bytes start with a short record (SR set, no id length) that fits them.
ShortRecordAhead(bytes) ==
    /\ Len(bytes) >= 3
    /\ \A i \in DOMAIN bytes : bytes[i] < 256
    /\ (bytes[1] \div 16) % 2 = 1
    /\ (bytes[1] \div 8) % 2 = 0
    /\ Len(bytes) >= 3 + bytes[2] + bytes[3]

\* The records the NFC library reads out of the bytes of a message written in
\* the short record form; <<>> once the bytes left are no short record.
RECURSIVE NdefRecordsOf(_)
NdefRecordsOf(bytes) ==
    IF ~ShortRecordAhead(bytes) THEN <<>>
    ELSE LET typeLength == bytes[2]
             payloadLength == bytes[3]
             size == 3 + typeLength + payloadLength
         IN  <<TagRecord(bytes[1] % 8,
                         SubSeq(bytes, 4, 3 + typeLength),
                         SubSeq(bytes, 4 + typeLength, size))>>
             \o NdefRecordsOf(SubSeq(bytes, size + 1, Len(bytes)))

\* The bytes are a message of short records from the first to the last byte.
RECURSIVE ShortRecordForm(_)
ShortRecordForm(bytes) ==
    \/ bytes = <<>>
    \/ /\ ShortRecordAhead(bytes)
       /\ ShortRecordForm(SubSeq(bytes, 4 + bytes[2] + bytes[3], Len(bytes)))

\* bytesToString(bytes): String.fromCharCode(...bytes), one code unit per byte.
BytesToString(bytes) == [i \in DOMAIN bytes |-> bytes[i] % 65536]

UpperHexChars == <<"0", "1", "2", "3", "4", "5", "6", "7", "8", "9",
                   "A", "B", "C", "D", "E", "F">>

\* bytesToHex(bytes): two upper-case digits per byte.
BytesToHex(bytes) ==
    Flatten([i \in DOMAIN bytes |->
                <<UpperHexChars[(bytes[i] \div 16) + 1], UpperHexChars[(bytes[i] % 16) + 1]>>])

\* parseTextRecord(payload); [type |-> "throw"] stands for its throw.
ParseTextRecord(payload) ==
    IF Len(payload) < 3
    THEN [type |-> "throw", error |-> "Invalid text record payload"]
    ELSE LET languageLength == payload[1] % 64
         IN  IF Len(payload) < 1 + languageLength
             THEN [type |-> "throw", error |-> "Invalid text record format"]
             ELSE [type |-> "text",
                   text |-> BytesToString(SubSeq(payload, 2 + languageLength, Len(payload))),
                   language |-> BytesToString(SubSeq(payload, 2, 1 + languageLength))]

\* const prefixes = [...] of parseUriRecord
UriPrefixes ==
    <<"", "http://www.", "https://www.", "http://", "https://",
      "tel:", "mailto:", "ftp://anonymous:anonymous@", "ftp://ftp.",
      "ftps://", "sftp://", "smb://", "nfs://", "ftp://", "dav://",
      "news:", "telnet://", "imap:", "rtsp://", "urn:", "pop:",
      "sip:", "sips:", "tftp:", "btspp://", "btl2cap://", "btgoep://",
      "tcpobex://", "irdaobex://", "file://", "urn:epc:id:", "urn:epc:tag:",
      "urn:epc:pat:", "urn:epc:raw:", "urn:epc:", "urn:nfc:">>

\* parseUriRecord(payload); the uri is kept as its prefix and its suffix.
ParseUriRecord(payload) ==
    IF Len(payload) = 0
    THEN [type |-> "throw", error |-> "Empty URI record"]
    ELSE LET prefixByte == payload[1]
         IN  [type |-> "uri",
              prefix |-> IF prefixByte < Len(UriPrefixes) THEN UriPrefixes[prefixByte + 1]
                         ELSE "",
              suffix |-> BytesToString(Tail(payload))]

\* What the catch of parseNdefPayload makes of a throw.
CaughtPayload(result) ==
    IF result.type = "throw" THEN [type |-> "error", error |-> result.error] ELSE result

\* parseNdefPayload(record)
ParseNdefPayload(record) ==
    IF Len(record.payload) = 0 THEN [type |-> "raw", data |-> <<>>]
    ELSE IF record.tnf = 1 /\ BytesToString(record.type) = <<84>>
    THEN CaughtPayload(ParseTextRecord(record.payload))
    ELSE IF record.tnf = 1 /\ BytesToString(record.type) = <<85>>
    THEN CaughtPayload(ParseUriRecord(record.payload))
    ELSE [type |-> "raw", data |-> BytesToHex(record.payload)]

\* parseNdefRecord(record, index); the records of the model carry no id, and
\* parseNdefPayload lets no throw through, so the catch is never entered.
ParseNdefRecord(record, index) ==
    [index |-> index,
     type |-> BytesToString(record.type),
     payload |-> ParseNdefPayload(record),
     tnf |-> record.tnf]

\* simpleParsePayload(payload) of a payload delivered as an array of numbers.
SimpleParsePayload(payload) ==
    IF Len(payload) = 0 THEN <<>> ELSE BytesToString(SubSeq(payload, 4, Len(payload)))

\* The element parseTagData of the final version maps a record to.
SimpleRecord(record, index) ==
    [index |-> index, type |-> <<84>>, payload |-> SimpleParsePayload(record.payload),
     tnf |-> 1]

\* The texts handed to writeNFCTag: none, 'Hi', 'é', '€5', and the texts that make
\* a payload of 255 and of 256 bytes.
CodecTexts ==
    {<<>>, <<72, 105>>, <<233>>, <<8364, 53>>,
     Repeat(65, ShortRecordLimit - 4), Repeat(65, ShortRecordLimit - 3)}

\* The records of tags written elsewhere: text records with no payload, with a
\* payload cut short, with a language length past the end, well formed ones,
\* a URI record with and without payload, records of other types.
ForeignRecords ==
    {TagRecord(1, <<84>>, <<>>),
     TagRecord(1, <<84>>, <<2>>),
     TagRecord(1, <<84>>, <<2, 101>>),
     TagRecord(1, <<84>>, <<5, 101, 110>>),
     TagRecord(1, <<84>>, <<2, 101, 110, 72, 105>>),
     TagRecord(1, <<84>>, <<0, 72, 105>>),
     TagRecord(1, <<85>>, <<>>),
     TagRecord(1, <<85>>, <<4, 97, 46, 105, 111>>),
     TagRecord(2, <<116>>, <<1, 171>>),
     TagRecord(0, <<>>, <<>>)}

SeqsUpTo(S, n) == UNION {[1..k -> S] : k \in 0..n}

NoWrite == [textData |-> <<>>, bytes |-> <<>>, handed |-> FALSE, outcome |-> "none"]

BlankTag == [origin |-> "blank", readable |-> TRUE, records |-> <<>>]

NoParse == [version |-> 0, delivered |-> FALSE, message |-> <<>>, ndefRecords |-> <<>>]

CodecInit ==
    /\ codecWrite = NoWrite
    /\ tagNdef = BlankTag
    /\ parsed = NoParse

\* writeNFCTag(textData) called on an initialised, idle manager and run to its
\* end: requestTechnology, the forEach building ndefMessageBytes, then
\* writeNdefMessage; the finally block leaves isReading false as it was.
\* Bytes that are no short-record message leave a tag no message is read from.
CodecWriteNFCTag ==
    /\ codecWrite.outcome = "none"
    /\ tagNdef.origin = "blank"
    /\ parsed.version = 0
    /\ \E textData \in SeqsUpTo(CodecTexts, MaxRecords), techOk \in BOOLEAN, writeOk \in BOOLEAN :
         LET bytes == NdefMessageBytes(textData)
         IN  /\ codecWrite' = [textData |-> textData,
                               bytes |-> IF techOk THEN bytes ELSE <<>>,
                               handed |-> techOk,
                               outcome |-> IF ~techOk THEN "hardware"
                                           ELSE IF writeOk THEN "ok" ELSE "write-failed"]
             /\ tagNdef' = IF techOk /\ writeOk
                           THEN [origin |-> "written",
                                 readable |-> ShortRecordForm(bytes),
                                 records |-> IF ShortRecordForm(bytes)
                                             THEN NdefRecordsOf(bytes) ELSE <<>>]
                           ELSE tagNdef
    /\ UNCHANGED <<coreVars, now, mgrVars, patVars, sigVars, logVars, topVars, detectVars,
                   parsed>>

\* A tag written by another device comes into the field.
ForeignTagPresented ==
    /\ codecWrite.outcome = "none"
    /\ tagNdef.origin = "blank"
    /\ parsed.version = 0
    /\ \E records \in SeqsUpTo(ForeignRecords, MaxRecords) :
         tagNdef' = [origin |-> "foreign", readable |-> TRUE, records |-> records]
    /\ UNCHANGED <<coreVars, now, mgrVars, patVars, sigVars, logVars, topVars, detectVars,
                   codecWrite, parsed>>

\* The try block of parseTagData: getNdefMessage settles, then the map over
\* the records delivered; a rejection or no message leaves ndefRecords empty.
ParseTagData(version, msgOk) ==
    LET delivered == msgOk /\ tagNdef.readable
        message == IF delivered THEN tagNdef.records ELSE <<>>
    IN  [version |-> version,
         delivered |-> delivered,
         message |-> message,
         ndefRecords |-> [i \in DOMAIN message |->
                             IF version = 1 THEN ParseNdefRecord(message[i], i - 1)
                             ELSE SimpleRecord(message[i], i - 1)]]

\* parseTagData of the first version of the class (parseNdefRecord).
CodecParseTagData ==
    /\ parsed.version = 0
    /\ \E msgOk \in BOOLEAN : parsed' = ParseTagData(1, msgOk)
    /\ UNCHANGED <<coreVars, now, mgrVars, patVars, sigVars, logVars, topVars, detectVars,
                   codecWrite, tagNdef>>

\* parseTagData of the final version of the class (simpleParsePayload).
CodecSimpleParseTagData ==
    /\ parsed.version = 0
    /\ \E msgOk \in BOOLEAN : parsed' = ParseTagData(2, msgOk)
    /\ UNCHANGED <<coreVars, now, mgrVars, patVars, sigVars, logVars, topVars, detectVars,
                   codecWrite, tagNdef>>

CodecNext ==
    \/ CodecWriteNFCTag
    \/ ForeignTagPresented
    \/ CodecParseTagData
    \/ CodecSimpleParseTagData

Init ==
    /\ CoreInit /\ MgrInit /\ PatternInit /\ SignInit /\ LogInit /\ TopInit /\ DetectInit
    /\ CodecInit

Next == CoreNext

Spec == Init /\ [][Next]_vars

SpecMgr == Init /\ [][MgrNext]_vars

SpecPattern == Init /\ [][PatternNext]_vars

SpecAlone == Init /\ [][AloneNext]_vars

SpecSign == Init /\ [][SignNext]_vars

SpecLog == Init /\ [][LogNext]_vars

SpecTop == Init /\ [][TopNext]_vars

SpecDetect == Init /\ [][DetectNext]_vars

SpecCodec == Init /\ [][CodecNext]_vars

\* ------------------------------------------------------------------------
\* Claims on the core manager
\* ------------------------------------------------------------------------

\* C1: at most one read-or-write operation of a manager instance is in flight
\* at any time (a call made while another has started and not yet settled is
\* rejected, never run concurrently).
C1_AtMostOneInFlight ==
    Cardinality({p \in Callers : InFlight(p)}) <= 1

\* A read or write call that entered the try block settles with one of these.
AcquiredOutcomes == {"ok", "hwError", "noTag", "writeError"}

\* C2: every read or write call that entered hardware acquisition has invoked
\* cancelTechnologyRequest by the time it has returned or thrown, whatever the
\* exit path.
C2_ReleasedOnEveryExit ==
    \A p \in Callers :
        (pc[p] = "idle" /\ outcome[p] \in AcquiredOutcomes) => cancelInvoked[p]

\* C2 witness: one call has thrown after acquiring the hardware, another has
\* returned normally, and both have invoked the release.
C2_Witness ==
    \E p, q \in Callers :
        /\ pc[p] = "idle" /\ outcome[p] \in {"hwError", "noTag", "writeError"}
        /\ pc[q] = "idle" /\ outcome[q] = "ok"
        /\ cancelInvoked[p] /\ cancelInvoked[q]

\* C3: the busy flag is set only while some operation is between taking the
\* flag and its finally block; once every operation has finished the flag is
\* clear, so no later call is rejected because of a completed operation.
C3_BusyOnlyWhileRunning ==
    isReading => \E p \in Callers : BeforeFinally(p)

\* C3 witness: an operation ended through an error path, nothing is in flight
\* and the flag is clear.
C3_Witness ==
    /\ \E p \in Callers : pc[p] = "idle" /\ outcome[p] \in {"hwError", "noTag", "writeError"}
    /\ \A p \in Callers : ~InFlight(p)
    /\ ~isReading

\* ------------------------------------------------------------------------
\* Claims on the top-level read paths (SpecMgr)
\* ------------------------------------------------------------------------

\* readSecureTag returned a result (it did not throw).
SecureReadReturned == last.kind = "secureRead" /\ last.thrown = "none"

AnyBlockingEvent == \E i \in 1..Len(last.events) : last.events[i].blocked

\* C4: for a tag carrying signed records, readSecureTag grants access exactly
\* when the reported signature is valid, it is not reported expired and no
\* returned event has blocked = true.
C4_SignedDecision ==
    (SecureReadReturned /\ last.signed) =>
        (last.accessGranted <=> (last.isValid /\ ~last.isExpired /\ ~AnyBlockingEvent))

\* C4 witness: a signed tag has been read and access was granted.
C4_Witness ==
    SecureReadReturned /\ last.signed /\ last.accessGranted

\* C5 as stated: for an unsigned tag, access is granted exactly when no
\* returned event has blocked = true.
C5_UnsignedReducesToEvents ==
    (SecureReadReturned /\ ~last.signed) => (last.accessGranted <=> ~AnyBlockingEvent)

\* C5 amended: for an unsigned tag, readSecureTag reports isValid = false and
\* isExpired = false and denies access, whether or not an event blocks.
C5_UnsignedDenied ==
    (SecureReadReturned /\ ~last.signed) =>
        (~last.accessGranted /\ ~last.isValid /\ ~last.isExpired)

\* C5 witness: an unsigned tag with a record has been read, no event blocks
\* and access is denied.
C5_Witness ==
    /\ SecureReadReturned /\ ~last.signed /\ Len(tagMem) > 0
    /\ ~AnyBlockingEvent /\ ~last.accessGranted

\* C6: every completed read of the top-level manager, success or decline,
\* hands exactly one entry to the access log.
C6_OneAccessLogPerRead ==
    (last.kind = "read" /\ last.thrown \in {"none", "ThreatBlocked"}) =>
        last.accessLogged = 1

\* The failures of the hardware level.
HardwareFailures == {"NotInitialized", "hwError", "noTag", "InProgress"}

\* C7: signature and threat outcomes are returned, never thrown: a read throws
\* only on a hardware-level failure, and a returned secure read with an
\* invalid or expired signature or a blocking threat denies access and lists
\* the triggering events.
C7_OutcomesAreReturned ==
    /\ (last.kind \in {"read", "secureRead"} /\ last.thrown # "none") =>
           last.thrown \in HardwareFailures
    /\ (SecureReadReturned /\ last.signed /\ (~last.isValid \/ last.isExpired \/ last.shouldBlock)) =>
           (~last.accessGranted /\ AnyBlockingEvent)

\* ------------------------------------------------------------------------
\* Claims on NFCSecurityManager (SpecPattern)
\* ------------------------------------------------------------------------

\* The descriptions of the events of the five rules of the analyser.
RuleDescriptions == {"accesses in last minute", "different locations recently",
                     "different devices recently", "attempts within 5 seconds",
                     "unusual access time"}

\* The indexes of the last n entries of a sequence.
LastIndexes(s, n) == {i \in DOMAIN s : i > Len(s) - n}

\* The rules that fire on a pattern at time `at`, each named by the description
\* of its event.
FiredRules(pattern, at) ==
    {d \in RuleDescriptions :
        \/ /\ d = "accesses in last minute"
           /\ Cardinality({i \in DOMAIN pattern.times : at - pattern.times[i] < oneMinute})
                 > maxAccessesPerMinute
        \/ /\ d = "different locations recently"
           /\ Cardinality({pattern.locations[i] :
                              i \in LastIndexes(pattern.locations, RecentLocations)}
                          \ {NoLocation}) > maxLocationsPerHour
        \/ /\ d = "different devices recently"
           /\ Cardinality({pattern.devices[i] : i \in LastIndexes(pattern.devices, RecentDevices)})
                 > MaxRecentDevices
        \/ /\ d = "attempts within 5 seconds"
           /\ Cardinality({i \in DOMAIN pattern.intervals : pattern.intervals[i] < ShortInterval})
                 > MaxShortIntervals
        \/ /\ d = "unusual access time"
           /\ (GetHours(at) < EarliestUsualHour \/ GetHours(at) > LatestUsualHour)
           /\ \A i \in DOMAIN pattern.times :
                 /\ GetHours(pattern.times[i]) - GetHours(at) >= UsualHourDistance
                    \/ GetHours(at) - GetHours(pattern.times[i]) >= UsualHourDistance}

\* The events hold one event for each rule that fires on the pattern and none
\* for a rule that does not.
OnePerFiredRule(events, pattern, at) ==
    \A d \in RuleDescriptions :
        Cardinality({i \in DOMAIN events : events[i].description = d})
            = IF d \in FiredRules(pattern, at) THEN 1 ELSE 0

AnyBlocked(events) == \E i \in DOMAIN events : events[i].blocked

\* C8: when the analyser runs for an access, inside verifySignedTag or on its
\* own, the events it yields are exactly one per rule that fires on the tag's
\* current window (no first-match-wins), and verifySignedTag reports
\* shouldBlock = true whenever one of the events it returns has blocked = true.
C8_AllFiredRulesReported ==
    [][/\ \A p \in Callers :
            (frame[p].pc = "storePatterns" /\ frame[p].op = "verifySignedTag"
               /\ frame'[p].pc = "idle") =>
                OnePerFiredRule(SubSeq(verdict'.securityEvents, Len(frame[p].events) + 1,
                                       Len(verdict'.securityEvents)),
                                patternObjects[accessPatterns[frame[p].tagId]], now)
       /\ (begun' # begun /\ frame' = frame /\ verdict'.call = "analyzeBehavior"
             /\ accessPatterns[verdict'.tagId] # 0) =>
                OnePerFiredRule(verdict'.securityEvents,
                                patternObjects[accessPatterns[verdict'.tagId]], now')
       /\ (verdict'.call = "verifySignedTag" /\ AnyBlocked(verdict'.securityEvents)) =>
                verdict'.shouldBlock]_vars

\* C8 witness: verifySignedTag has returned, for a genuine and fresh payload,
\* the events of three rules that fired together (both RAPID_ACCESS rules,
\* which block, and the LOCATION_ANOMALY rule, which does not), with
\* shouldBlock = true.
C8_Witness ==
    /\ verdict.call = "verifySignedTag" /\ verdict.isValid /\ ~verdict.isExpired
    /\ Len(verdict.securityEvents) = 3
    /\ {verdict.securityEvents[i].description : i \in DOMAIN verdict.securityEvents}
          = {"accesses in last minute", "different locations recently",
             "attempts within 5 seconds"}
    /\ verdict.shouldBlock

\* C9: once the recordAccess calls made for a tag id have returned, n of them
\* in all, the tag's AccessPattern holds exactly min(n, 20) access times, in
\* chronological order, and they are the times of the most recent accesses.
C9_BoundedRecentTimes ==
    \A t \in TagIds :
        (\A p \in Callers : frame[p].pc = "idle") =>
            LET n == Len(recorded[t])
                times == IF accessPatterns[t] = 0 THEN <<>>
                         ELSE patternObjects[accessPatterns[t]].times
            IN  /\ Len(times) = IF n < maxEntries THEN n ELSE maxEntries
                /\ \A i \in 1..(Len(times) - 1) : times[i] <= times[i + 1]
                /\ Len(times) <= n =>
                      \A i \in 1..Len(times) : times[i] = recorded[t][n - Len(times) + i].time

\* C10: in every AccessPattern of the map, intervals[i] = times[i+1] - times[i]
\* for every index i of intervals, and times, locations and devices have the
\* same length and hold at each index the time, location and device of one
\* and the same recorded access.
C10_SequencesAligned ==
    \A t \in TagIds :
        accessPatterns[t] # 0 =>
            LET pattern == patternObjects[accessPatterns[t]]
                n == Len(recorded[t])
                k == Len(pattern.times)
            IN  /\ \A i \in DOMAIN pattern.intervals :
                      /\ i + 1 <= k
                      /\ pattern.intervals[i] = pattern.times[i + 1] - pattern.times[i]
                /\ Len(pattern.devices) = k
                /\ Len(pattern.locations) = k
                /\ k <= n
                /\ \A i \in 1..k :
                      /\ pattern.times[i] = recorded[t][n - k + i].time
                      /\ pattern.devices[i] = recorded[t][n - k + i].deviceId
                      /\ pattern.locations[i] = recorded[t][n - k + i].location

\* C11: with maxAccessesPerMinute = 3, when verifySignedTag returns for an
\* access (the access recorded, then analysed), the events it returns hold a
\* RAPID_ACCESS event with blocked = true if four or more accesses recorded
\* for the tag lie within the last 60 seconds, and hold no RAPID_ACCESS event
\* if three accesses or fewer have been recorded for the tag.
C11_RateLimitOnFourthAccess ==
    [][\A p \in Callers :
          (frame[p].pc = "storePatterns" /\ frame[p].op = "verifySignedTag"
             /\ frame'[p].pc = "idle") =>
              LET accesses == recorded[frame[p].tagId]
                  within == {i \in DOMAIN accesses : now - accesses[i].time < oneMinute}
                  returned == verdict'.securityEvents
                  rapid == {i \in DOMAIN returned : returned[i].type = "RAPID_ACCESS"}
              IN  /\ Cardinality(within) > maxAccessesPerMinute =>
                        \E i \in rapid : returned[i].blocked
                  /\ Len(accesses) <= maxAccessesPerMinute => rapid = {}]_vars

\* A step in which the analyser has run for an access, inside verifySignedTag
\* or on its own: Holds is stated of the events it yielded, the pattern it
\* read and the time it read.
AnalysisStep(Holds(_, _, _)) ==
    /\ \A p \in Callers :
          (frame[p].pc = "storePatterns" /\ frame[p].op = "verifySignedTag"
             /\ frame'[p].pc = "idle") =>
              Holds(SubSeq(verdict'.securityEvents, Len(frame[p].events) + 1,
                           Len(verdict'.securityEvents)),
                    patternObjects[accessPatterns[frame[p].tagId]], now)
    /\ (begun' # begun /\ frame' = frame /\ verdict'.call = "analyzeBehavior"
          /\ accessPatterns[verdict'.tagId] # 0) =>
              Holds(verdict'.securityEvents,
                    patternObjects[accessPatterns[verdict'.tagId]], now')

\* The events of the rule named by a description.
EventsOf(events, description) ==
    {i \in DOMAIN events : events[i].description = description}

ShortBurstRule(events, pattern, at) ==
    LET burst == EventsOf(events, "attempts within 5 seconds")
        short == {i \in DOMAIN pattern.intervals : pattern.intervals[i] < ShortInterval}
    IN  /\ burst # {} <=> Cardinality(short) > MaxShortIntervals
        /\ \A i \in burst :
              /\ events[i].type = "RAPID_ACCESS"
              /\ events[i].severity = "HIGH"
              /\ events[i].blocked

\* C12: the analyser raises the short-interval burst event (RAPID_ACCESS,
\* HIGH, blocked = true) exactly when more than 2 of the intervals the tag's
\* AccessPattern holds are under 5 seconds, whether or not the count of
\* accesses in the last minute is exceeded.
C12_ShortIntervalBurst == [][AnalysisStep(ShortBurstRule)]_vars

\* C12 witness: verifySignedTag has returned the burst event for a window
\* whose count of accesses in the last minute is not exceeded.
C12_Witness ==
    /\ verdict.call = "verifySignedTag"
    /\ EventsOf(verdict.securityEvents, "attempts within 5 seconds") # {}
    /\ EventsOf(verdict.securityEvents, "accesses in last minute") = {}

DeviceRule(events, pattern, at) ==
    LET anomaly == EventsOf(events, "different devices recently")
        recent == {pattern.devices[i] : i \in LastIndexes(pattern.devices, RecentDevices)}
    IN  /\ anomaly # {} <=> Cardinality(recent) > MaxRecentDevices
        /\ \A i \in anomaly :
              /\ events[i].type = "DEVICE_ANOMALY"
              /\ events[i].severity = "HIGH"
              /\ events[i].blocked

\* C13: the analyser raises DEVICE_ANOMALY (HIGH, blocked = true) exactly when
\* the device fingerprints of the last 5 accesses the tag's AccessPattern
\* holds are more than 2 distinct ones.
C13_DeviceAnomaly == [][AnalysisStep(DeviceRule)]_vars

\* C13 witness: verifySignedTag has returned DEVICE_ANOMALY, and the tag's
\* window now holds three fingerprints of which the last five accesses show
\* two: the next analysis does not raise it.
C13_Witness ==
    \E t \in TagIds :
        /\ accessPatterns[t] # 0
        /\ LET devices == patternObjects[accessPatterns[t]].devices
           IN  /\ Cardinality({devices[i] : i \in DOMAIN devices}) > MaxRecentDevices
               /\ Cardinality({devices[i] : i \in LastIndexes(devices, RecentDevices)})
                     <= MaxRecentDevices
        /\ verdict.call = "verifySignedTag"
        /\ EventsOf(verdict.securityEvents, "different devices recently") = {}
        /\ \E i \in DOMAIN securityEvents : securityEvents[i].type = "DEVICE_ANOMALY"

\* ------------------------------------------------------------------------
\* Claims on NFCSecurityManager used by one caller (SpecAlone)
\* ------------------------------------------------------------------------

\* verifySignedTag has returned after recording and analysing the access.
Analysed ==
    /\ verdict.call = "verifySignedTag"
    /\ EventsOf(verdict.securityEvents, "no signature found") = {}

\* C14: when verifySignedTag has analysed an access, the events it returns
\* hold LOCATION_ANOMALY (MEDIUM, blocked = false) exactly when the last 10
\* accesses recorded for the tag, those without a location included, show
\* more than maxLocationsPerHour distinct non-empty locations.
C14_LocationAnomaly ==
    Analysed =>
        LET accesses == recorded[verdict.tagId]
            locations == {accesses[i].location : i \in LastIndexes(accesses, RecentLocations)}
                         \ {NoLocation}
            anomaly == EventsOf(verdict.securityEvents, "different locations recently")
        IN  /\ anomaly # {} <=> Cardinality(locations) > maxLocationsPerHour
            /\ \A i \in anomaly :
                  /\ verdict.securityEvents[i].type = "LOCATION_ANOMALY"
                  /\ verdict.securityEvents[i].severity = "MEDIUM"
                  /\ ~verdict.securityEvents[i].blocked

\* C15: when verifySignedTag has analysed an access, the events it returns
\* hold the unusual-time signal (LOW, blocked = false) exactly when the hour
\* of the access is before 6 or after 22 and no earlier access recorded for
\* the tag lies within 2 hours of that hour; so they hold it for the first
\* access of a tag made at such an hour.
C15_UnusualTime ==
    Analysed =>
        LET accesses == recorded[verdict.tagId]
            currentHour == GetHours(now)
            isUnusualTime == currentHour < EarliestUsualHour \/ currentHour > LatestUsualHour
            near == {i \in 1..(Len(accesses) - 1) :
                        /\ GetHours(accesses[i].time) - currentHour < UsualHourDistance
                        /\ currentHour - GetHours(accesses[i].time) < UsualHourDistance}
            signal == EventsOf(verdict.securityEvents, "unusual access time")
        IN  /\ signal # {} <=> (isUnusualTime /\ near = {})
            /\ \A i \in signal :
                  /\ verdict.securityEvents[i].severity = "LOW"
                  /\ ~verdict.securityEvents[i].blocked

\* ------------------------------------------------------------------------
\* Claims on signing and verifying (SpecSign)
\* ------------------------------------------------------------------------

\* The verifications of a run are those of the payload the signing call made,
\* unchanged.
SignedPresented ==
    /\ verifications # <<>>
    /\ presented = signing.payload

\* C16: a payload signed at sign_time is reported isExpired = false at every
\* verification time up to sign_time plus the expiry window and isExpired =
\* true at every later time, and isValid is the same at every verification
\* time.
C16_ExpiryMonotone ==
    SignedPresented =>
        \A i \in DOMAIN verifications :
            /\ verifications[i].isExpired
                  <=> (verifications[i].at - signing.at > signatureExpiration)
            /\ verifications[i].isValid <=> verifications[1].isValid

\* The presented payload has no field that starts with the signature marker,
\* or none that starts with the time marker.
LacksField(payload, mgr) ==
    LET parts == Split(payload, "|")
    IN  \/ FindIndexStartsWith(parts, SignatureField(mgr)) = 0
        \/ FindIndexStartsWith(parts, TimeField(mgr)) = 0

\* C17: verifying a payload that lacks the signature field or lacks the time
\* field yields isValid = false and a SIGNATURE_INVALID event of severity
\* HIGH.
C17_ParseFailureInvalid ==
    \A i \in DOMAIN verifications :
        LacksField(presented, signing.mgr) =>
            /\ ~verifications[i].isValid
            /\ \E k \in DOMAIN verifications[i].events :
                  /\ verifications[i].events[k].type = "SIGNATURE_INVALID"
                  /\ verifications[i].events[k].severity = "HIGH"

\* C18: for any signed payload, changing any single byte located before the
\* signature marker makes the verification report isValid = false, changes
\* that alter or introduce a field delimiter or a field that looks like a
\* signature field included.
C18_TamperSensitivity ==
    \A i \in DOMAIN verifications :
        presented \in Tampered(signing.payload) => ~verifications[i].isValid

\* The produced payload starts with the data passed in, followed by the time
\* field the signer appends.
DataKept ==
    LET head == signing.data \o <<"|">> \o TimeField(signing.mgr) \o IntToString(signing.at)
    IN  /\ Len(signing.payload) >= Len(head)
        /\ SubSeq(signing.payload, 1, Len(head)) = head

\* C19: signing fails with a capacity error whenever the final signed string
\* would exceed the 200-byte ceiling, and whenever signing succeeds the data
\* field of the produced payload equals the data passed in.
C19_CapacityErrorNoTruncation ==
    signing.mgr # "none" =>
        /\ signing.length > MaxSecureLength => signing.thrown
        /\ ~signing.thrown => DataKept

\* C20: a payload produced by a signing call and verified immediately reports
\* isValid = true and isExpired = false, whatever the data, data that holds
\* the field delimiter '|' and field-like text included.
C20_SignVerifyRoundTrip ==
    SignedPresented =>
        \A i \in DOMAIN verifications :
            verifications[i].at = signing.at =>
                verifications[i].isValid /\ ~verifications[i].isExpired

\* ------------------------------------------------------------------------
\* Claims on LoggingManager (SpecLog)
\* ------------------------------------------------------------------------

\* Array.prototype.reverse()
Reverse(s) == [i \in 1..Len(s) |-> s[Len(s) - i + 1]]

\* C21: after n sequential insertions the persisted access log holds exactly
\* min(n, 100) entries (the threat reports min(n, 50)), newest first, and the
\* entries missing are exactly the oldest ones.
C21_LogEviction ==
    /\ logCall.log = "access" => accessLogs = Reverse(LastN(written, MAX_LOGS))
    /\ logCall.log = "threat" => threatReports = Reverse(LastN(written, MAX_THREATS))

\* Every entry of the first list is an entry of the second.
AllKept(before, after) ==
    \A i \in DOMAIN before : \E j \in DOMAIN after : after[j] = before[i]

\* C30: a storage failure during logNFCAccess or logThreatReport never loses
\* history: the entries that were in the persisted log before the call are
\* all still there afterwards.
C30_FailureKeepsHistory ==
    [][(logCall'.calls # logCall.calls /\ (~logCall'.getOk \/ ~logCall'.setOk)) =>
          (AllKept(accessLogs, accessLogs') /\ AllKept(threatReports, threatReports'))]_vars

\* ------------------------------------------------------------------------
\* Claims on the ordering of the shared stores
\* ------------------------------------------------------------------------

\* The calls that are inside recordAccess for a tag id, between reading the
\* tag's AccessPattern from the map and writing it back.
InsideRecordAccess(tagId) ==
    {p \in Callers : frame[p].pc = "fingerprint" /\ frame[p].tagId = tagId}

\* C22: for a given tag id recordAccess executions never overlap: at most one
\* is between reading the tag's AccessPattern and writing it back, and no
\* recorded access is lost or overwritten.
C22_RecordAccessNeverOverlaps ==
    \A tagId \in TagIds :
        /\ Cardinality(InsideRecordAccess(tagId)) <= 1
        /\ accessPatterns[tagId] # 0 =>
              Len(patternObjects[accessPatterns[tagId]].times)
                  = IF Len(recorded[tagId]) > maxEntries THEN maxEntries
                    ELSE Len(recorded[tagId])

\* The reads that are inside the read-modify-write of a log: they hold the
\* list they read and their write has not come through.
InsideLogUpdate(step) == {p \in Callers : top[p].pc = step}

\* C23: the read-modify-write of the persisted access log and of the
\* threat-report log is never interleaved between two readNFCTag calls, and
\* the log entry of every successfully read tag is in the persisted log
\* afterwards.
C23_NoLostLogUpdate ==
    /\ Cardinality(InsideLogUpdate("setAccessLogs")) <= 1
    /\ Cardinality(InsideLogUpdate("setThreatReports")) <= 1
    /\ \A entry \in topLogged : \E i \in DOMAIN accessLogs : accessLogs[i] = entry

\* ------------------------------------------------------------------------
\* Further claims on the core manager (Spec)
\* ------------------------------------------------------------------------

\* How a rejected readNFCTag or writeNFCTag call settles.
Rejections == {"NotInitialized", "InProgress"}

\* C27: a readNFCTag or writeNFCTag call that is rejected (manager not
\* initialised, or another operation in progress) leaves the busy flag
\* unchanged, does not acquire the hardware and does not release the hardware
\* request held by the operation in flight.
C27_RejectedCallHasNoEffect ==
    [][\A p \in Callers :
          (outcome'[p] \in Rejections /\ outcome'[p] # outcome[p]) =>
              /\ isReading' = isReading
              /\ isInitialized' = isInitialized
              /\ hwHolder' = hwHolder
              /\ ~cancelInvoked'[p]
              /\ \A q \in Callers \ {p} :
                    pc'[q] = pc[q] /\ cancelInvoked'[q] = cancelInvoked[q]]_vars

\* C27 witness: a call has been rejected as in progress while the operation
\* of another caller holds the busy flag and the hardware.
C27_Witness ==
    \E p \in Callers, q \in Callers :
        /\ p # q
        /\ outcome[p] = "InProgress" /\ pc[p] = "idle" /\ ~cancelInvoked[p]
        /\ BeforeFinally(q) /\ hwHolder = q /\ isReading

\* C29: after cleanup() returns the manager is uninitialised, so that every
\* later readNFCTag or writeNFCTag is rejected as not initialised until
\* initialize() succeeds again; also when cleanup() is called while a read is
\* in flight and cancelling the hardware request fails.
C29_CleanupUninitialises ==
    [][\A p \in Callers :
          (outcome'[p] = "cleaned" /\ outcome[p] # "cleaned") => ~isInitialized']_vars

\* ------------------------------------------------------------------------
\* Claims on SecurityManager (SpecDetect)
\* ------------------------------------------------------------------------

CloningBlocked(report) == report.threatType = "CLONING_ATTEMPT" /\ report.blocked

\* C28: with detection enabled performThreatDetection first reports a
\* blocking CLONING_ATTEMPT on the 7th counted read of a tag id and reports it
\* again on every later enabled call for that tag id; the per-tag read count
\* only grows; a call with detection disabled returns null and leaves every
\* count unchanged.
C28_CloningFromSeventhRead ==
    [][/\ \A t \in DetectTagIds : readAttempts'[t] >= readAttempts[t]
       /\ detected'.calls # detected.calls =>
             LET t == detected'.tagId
             IN  IF ~threatDetectionEnabled
                 THEN detected'.report = NoReport /\ readAttempts' = readAttempts
                 ELSE /\ readAttempts' = [readAttempts EXCEPT ![t] = @ + 1]
                      /\ CloningBlocked(detected'.report)
                            <=> readAttempts'[t] >= CloningAttempts + 2
                      /\ t \in reported => CloningBlocked(detected'.report)]_vars

\* C28 witness: the cloning attempt has been reported for a tag id a second
\* time, after a call made with detection disabled, while the other tag id
\* is still below the threshold.
C28_Witness ==
    /\ CloningBlocked(detected.report)
    /\ readAttempts[detected.tagId] = CloningAttempts + 3
    /\ detected.calls > CloningAttempts + 3
    /\ \E t \in DetectTagIds : readAttempts[t] = 0

\* ------------------------------------------------------------------------
\* The NDEF text records (SpecCodec)
\* ------------------------------------------------------------------------
\* A text of textData makes a payload that does not fit the one length byte of
\* the short record form.
Oversized(textData) ==
    \E i \in DOMAIN textData : Len(TextPayload(textData[i])) > ShortRecordLimit - 1

\* The bytes are short records, one per text, each holding the payload of its
\* text under a length byte equal to the payload's length.
ShortRecordsOf(bytes, textData) ==
    /\ ShortRecordForm(bytes)
    /\ Len(NdefRecordsOf(bytes)) = Len(textData)
    /\ \A i \in DOMAIN textData : NdefRecordsOf(bytes)[i].payload = TextPayload(textData[i])

\* C25: a writeNFCTag call that got the radio and was given a text whose payload
\* (status byte, language code, text) is over 255 bytes ends with a capacity
\* error and hands nothing to writeNdefMessage; every message handed over to be
\* written consists of short records whose length byte is the payload's length.
C25_CapacityErrorOnLongPayload ==
    /\ (codecWrite.outcome \notin {"none", "hardware"} /\ Oversized(codecWrite.textData)) =>
           (codecWrite.outcome = "capacity" /\ ~codecWrite.handed)
    /\ codecWrite.handed => ShortRecordsOf(codecWrite.bytes, codecWrite.textData)

\* The text parseTagData of either version gives for a record.
DecodedText(record, version) ==
    IF version = 2 THEN record.payload
    ELSE IF record.payload.type = "text" THEN record.payload.text
    ELSE <<-1>>

\* C26: texts whose payloads are at most 255 bytes, written and read back, come
\* back as they were: as many records, in the same order, each with its text.
C26_EncodeDecodeRoundTrip ==
    (/\ codecWrite.outcome = "ok"
     /\ ~Oversized(codecWrite.textData)
     /\ parsed.delivered) =>
        /\ Len(parsed.ndefRecords) = Len(codecWrite.textData)
        /\ \A i \in DOMAIN parsed.ndefRecords :
              /\ parsed.ndefRecords[i].index = i - 1
              /\ DecodedText(parsed.ndefRecords[i], parsed.version) = codecWrite.textData[i]

\* A text record without its status byte or with a language code running past
\* the end of the payload, a URI record without its prefix byte.
Malformed(record) ==
    \/ /\ record.tnf = 1 /\ record.type = <<84>>
       /\ \/ Len(record.payload) = 0
          \/ Len(record.payload) < 1 + (record.payload[1] % 64)
    \/ record.tnf = 1 /\ record.type = <<85>> /\ Len(record.payload) = 0

\* C24: parseTagData of the first version, given a message of N records, returns
\* N records in the order of the message; a malformed record is returned with
\* an error payload, and every record is returned as a message holding it alone
\* would return it.
C24_MalformedRecordsFlagged ==
    (parsed.version = 1 /\ parsed.delivered) =>
        /\ Len(parsed.ndefRecords) = Len(parsed.message)
        /\ \A i \in DOMAIN parsed.message :
              LET alone == ParseNdefRecord(parsed.message[i], 0)
                  inMessage == parsed.ndefRecords[i]
              IN  /\ inMessage.index = i - 1
                  /\ inMessage.payload = alone.payload
                  /\ inMessage.type = alone.type
                  /\ inMessage.tnf = alone.tnf
                  /\ Malformed(parsed.message[i]) => inMessage.payload.type = "error"

====
